---- MODULE Spec2Model ----
(***************************************************************************)
(* lib-vmm: the identifier normaliser (registry/id.rs) and the provider /  *)
(* game registry (runtime/context.rs): ContextBuilder, freeze, Context.    *)
(*                                                                         *)
(* Strings are sequences of characters; a character is a one-element       *)
(* string token.  Option<T> is a sequence of length 0 (None) or 1 (Some).  *)
(* Result<T, RegistryError> is <<"Ok", v>> or <<"Err", kind, payload>>,    *)
(* the payload being the tuple of the values formatted into the message.   *)
(***************************************************************************)
EXTENDS Integers, Sequences, FiniteSets, TLC

VARIABLES
    builder,      \* the ContextBuilder: [mod_providers, games], or Moved after freeze
    ctx,          \* the Context: [mod_providers, game_providers], or NoContext before freeze
    active_game,  \* content of Context.active_game (the Mutex's Option<String>)
    lock,         \* holder of the active_game Mutex: a thread, or Free
    pc,           \* per caller thread: position inside a Context method
    loc,          \* per caller thread: the locals of the method in progress
    last,         \* the call that returned in the step leading to this state, or NoCall
    activated,    \* history: some activate_game call has returned Ok
    rejected,     \* history of the builder: the game ids whose registration on it
                  \* failed on a missing dependency
    last_locked,  \* history: the id of the last activate_game call to take the lock
    owner,        \* the provider behind the capability delegates: "building" (inside
                  \* Arc::new_cyclic), "alive" or "dropped"
    strong,       \* the strong count of the provider's Arc
    handles,      \* the strong handles to the provider held outside it
    cap_builder,  \* the CapabilityBuilder [weak, caps] until finish() consumes it
    caps,         \* the provider's capability list
    cap_refs,     \* per capability: the clones of its CapabilityRef held outside the provider
    dpc,          \* per caller: position inside a delegate method
    dloc,         \* per caller: the delegate call in progress
    dlast,        \* the delegate call that returned in the step leading to this state
    invoked,      \* the call of the owner's own implementation made in that step
    resolved,     \* history: the capabilities on which some call resolved the owner
    attached,     \* history: the attachment calls made on the CapabilityBuilder
    probed,       \* the last probe of a dyn Capability and what it returned
    n_raw,        \* the string handed to normalize_id
    n_res,        \* what normalize_id returned for it, or NotCalled
    n_core,       \* what is_core_id returned for it, or NotCalled
    context_cell, \* DefaultProviderApi.context_cell: None or Some(context)
    semaphore,    \* the permit of the cell: "available", "acquired" or "closed"
    apc,          \* per caller: position inside set_context
    aloc,         \* per caller: the context a set_context in progress was given
    alast,        \* the ProviderApi call that returned in the step leading to this state
    set_ok        \* history: the (caller, context) of the set_context calls that returned

\* ContextBuilder and Context
regvars == <<builder, ctx, active_game, lock, pc, loc, last, activated, rejected,
             last_locked>>

\* a provider, its capability list and the callers of its delegates
capvars == <<owner, strong, handles, cap_builder, caps, cap_refs, dpc, dloc, dlast,
             invoked, resolved, attached, probed>>

\* a call of normalize_id and of is_core_id
normvars == <<n_raw, n_res, n_core>>

\* a DefaultProviderApi and the callers of context and set_context
apivars == <<context_cell, semaphore, apc, aloc, alast, set_ok>>

vars == <<regvars, capvars, normvars, apivars>>

-----------------------------------------------------------------------------
(* Option and Result *)

None == <<>>

Some(x) == <<x>>

Ok(v) == <<"Ok", v>>

Err(kind, payload) == <<"Err", kind, payload>>

IsOk(r) == r[1] = "Ok"

IsErr(r) == r[1] = "Err"

ErrKind(r) == r[2]

Unit == <<>>

-----------------------------------------------------------------------------
(* Characters and strings *)

UpperChars == <<"A", "B", "C", "D", "E", "F", "G", "H", "I", "J", "K", "L", "M",
                "N", "O", "P", "Q", "R", "S", "T", "U", "V", "W", "X", "Y", "Z">>

LowerChars == <<"a", "b", "c", "d", "e", "f", "g", "h", "i", "j", "k", "l", "m",
                "n", "o", "p", "q", "r", "s", "t", "u", "v", "w", "x", "y", "z">>

DigitChars == {"0", "1", "2", "3", "4", "5", "6", "7", "8", "9"}

Range(s) == {s[i] : i \in 1..Len(s)}

UpperSet == Range(UpperChars)

LowerSet == Range(LowerChars)

\* char::is_whitespace for the characters of the model
IsWhitespace(ch) == ch \in {" ", "\t", "\n"}

\* char::to_lowercase on the upper-case letters
LowerOf == [ch \in UpperSet |->
               LowerChars[CHOOSE i \in 1..Len(UpperChars) : UpperChars[i] = ch]]

\* char::to_lowercase for the characters of the model
LowerChar(ch) == IF ch \in UpperSet THEN LowerOf[ch] ELSE ch

\* UTF-8 width of a character: "E'" stands for U+00E9, the one non-ASCII character
CharBytes(ch) == IF ch = "E'" THEN 2 ELSE 1

RECURSIVE ByteLen(_)
\* str::len: the length in bytes, the sum of the characters' encoded lengths
\* (added by halves)
ByteLen(s) ==
    IF Len(s) = 0 THEN 0
    ELSE IF Len(s) = 1 THEN CharBytes(s[1])
    ELSE LET mid == Len(s) \div 2 IN
         ByteLen(SubSeq(s, 1, mid)) + ByteLen(SubSeq(s, mid + 1, Len(s)))

RECURSIVE TrimStart(_)
TrimStart(s) ==
    IF s # <<>> /\ IsWhitespace(Head(s)) THEN TrimStart(Tail(s)) ELSE s

RECURSIVE TrimEnd(_)
TrimEnd(s) ==
    IF s # <<>> /\ IsWhitespace(s[Len(s)])
    THEN TrimEnd(SubSeq(s, 1, Len(s) - 1))
    ELSE s

\* str::trim
Trim(s) == TrimEnd(TrimStart(s))

\* str::to_lowercase
ToLowercase(s) == [i \in 1..Len(s) |-> LowerChar(s[i])]

\* str::starts_with
StartsWith(s, prefix) ==
    /\ Len(s) >= Len(prefix)
    /\ SubSeq(s, 1, Len(prefix)) = prefix

-----------------------------------------------------------------------------
(* registry/id.rs *)

MaxIdLen == 200

CorePrefix == <<"c", "o", "r", "e", ":">>

\* the characters the first match arm accepts: 'a'..='z' | '0'..='9' | '.' | '_' | '-'
IdChars == LowerSet \cup DigitChars \cup {".", "_", "-"}

IsIdChar(ch) == ch \in IdChars

\* the loop body accepting a colon wherever the first one stands
ScanChar_anycolon(raw, s, i, seen_colon) ==
    LET ch == s[i + 1] IN
    IF IsIdChar(ch) THEN <<"Continue", seen_colon>>
    ELSE IF ch = ":" /\ ~seen_colon
         THEN <<"Continue", TRUE>>
         ELSE Err("InvalidId", <<raw, <<ch>>, i>>)

\* the body of the for loop of normalize_id for the character at 0-based index
\* i: the next value of seen_colon, or the Err the function returns with
ScanChar(raw, s, i, seen_colon) ==
    LET ch == s[i + 1] IN
    IF IsIdChar(ch) THEN <<"Continue", seen_colon>>
    ELSE IF ch = ":" /\ ~seen_colon /\ i > 0 /\ i < ByteLen(s) - 1
         THEN <<"Continue", TRUE>>
         ELSE Err("InvalidId", <<raw, <<ch>>, i>>)

RECURSIVE ScanRange(_, _, _, _, _)
\* the iterations of the loop for the indices lo .. hi - 1, in order: the
\* second half runs only when the first did not return
ScanRange(raw, s, lo, hi, seen_colon) ==
    IF lo >= hi THEN <<"Continue", seen_colon>>
    ELSE IF hi = lo + 1 THEN ScanChar(raw, s, lo, seen_colon)
    ELSE LET mid == (lo + hi) \div 2
             first == ScanRange(raw, s, lo, mid, seen_colon)
         IN  IF IsErr(first) THEN first
             ELSE ScanRange(raw, s, mid, hi, first[2])

\* the for loop of normalize_id over s.chars().enumerate(), from 0-based index
\* i, and the Ok(s) after it
ScanId(raw, s, i, seen_colon) ==
    LET scanned == ScanRange(raw, s, i, Len(s), seen_colon) IN
    IF IsErr(scanned) THEN scanned ELSE Ok(s)

\* normalize_id returning the trimmed string in the case it was given
normalize_id_keepcase(raw) ==
    LET s == ToLowercase(Trim(raw)) IN
    IF s = <<>> \/ ByteLen(s) > MaxIdLen
    THEN Err("InvalidId", <<raw>>)
    ELSE IF IsOk(ScanId(raw, s, 0, FALSE)) THEN Ok(Trim(raw))
         ELSE ScanId(raw, s, 0, FALSE)

normalize_id(raw) ==
    LET s == ToLowercase(Trim(raw)) IN
    IF s = <<>> \/ ByteLen(s) > MaxIdLen
    THEN Err("InvalidId", <<raw>>)
    ELSE ScanId(raw, s, 0, FALSE)

is_core_id(id) == StartsWith(id, CorePrefix)

-----------------------------------------------------------------------------
(* registry/model.rs *)

Core == <<"Core">>

Plugin(name) == <<"Plugin", name>>

ProviderEntry(id, source, provider) ==
    [id |-> id, source |-> source, provider |-> provider]

GameEntry(id, source, game, required_provider_id) ==
    [id |-> id, source |-> source, game |-> game,
     required_provider_id |-> required_provider_id]

\* HashMap::insert: the new value replaces one already stored under the key
Insert(map, key, value) == (key :> value) @@ map

EmptyMap == <<>>

-----------------------------------------------------------------------------
(* The inputs: raw identifiers, provider objects, origins *)

S_ModA == <<"m", "o", "d", ":", "a">>

S_ModA_Upper == <<" ", "M", "o", "d", ":", "A">>

S_CoreBase == <<"C", "o", "r", "e", ":", "B", "a", "s", "e", " ">>

S_core_base == <<"c", "o", "r", "e", ":", "b", "a", "s", "e">>

S_ColonBad == <<":", "b", "a", "d">>

S_GameX == <<"G", "a", "m", "e", "-", "X">>

S_game_x == <<"g", "a", "m", "e", "-", "x">>

S_CoreG == <<"c", "o", "r", "e", ":", "g">>

S_BadId == <<"b", "a", "d", " ", "i", "d">>

S_Unknown == <<"u", "n", "k", "n", "o", "w", "n">>

S_InstalledMod == <<"I", "n", "s", "t", "a", "l", "l", "e", "d", "-", "m", "o", "d">>

S_NoActiveGame == <<"N", "o", " ", "a", "c", "t", "i", "v", "e", " ", "g", "a", "m", "e">>

\* the ids passed to register_mod_provider
ProviderRawIds == {S_ModA, S_ModA_Upper, S_CoreBase, S_ColonBad}

\* the Arc<dyn ModProvider> objects
ModProviderObjs == {"P1", "P2"}

\* the Arc<dyn GameProvider> objects: what Provider::id() and
\* GameProvider::mod_provider_id() return for each
GameProviderObjs == {"GX", "GX2", "GX3", "GBad", "GCore"}

GameProviderId(g) ==
    CASE g = "GX" -> S_GameX
      [] g = "GX2" -> S_game_x
      [] g = "GX3" -> S_game_x
      [] g = "GBad" -> S_BadId
      [] g = "GCore" -> S_CoreG

GameModProviderId(g) ==
    CASE g = "GX" -> S_ModA_Upper
      [] g = "GX2" -> S_CoreBase
      [] g = "GX3" -> S_ColonBad
      [] g = "GBad" -> S_ModA
      [] g = "GCore" -> S_core_base

Sources == {Core, Plugin("plug-a")}

-----------------------------------------------------------------------------
(* runtime/context.rs: ContextBuilder *)

\* ContextBuilder::new
NewBuilder == [mod_providers |-> EmptyMap, games |-> EmptyMap]

\* register_mod_provider on a duplicate id replacing the stored entry
register_mod_provider_overwrite(b, id, provider, source) ==
    LET n == normalize_id(id) IN
    IF IsErr(n) THEN [res |-> n, b |-> b]
    ELSE LET nid == n[2] IN
         IF StartsWith(nid, CorePrefix) /\ source # Core
         THEN [res |-> Err("ReservedCoreId", <<nid>>), b |-> b]
         ELSE [res |-> IF nid \in DOMAIN b.mod_providers
                       THEN Err("ProviderAlreadyExists", <<nid>>)
                       ELSE Ok(Unit),
               b |-> [b EXCEPT !.mod_providers =
                         Insert(@, nid, ProviderEntry(nid, source, provider))]]

\* register_mod_provider that also enters the games waiting for the new provider
register_mod_provider_deferred(b, id, provider, source) ==
    LET n == normalize_id(id) IN
    IF IsErr(n) THEN [res |-> n, b |-> b]
    ELSE LET nid == n[2] IN
         IF StartsWith(nid, CorePrefix) /\ source # Core
         THEN [res |-> Err("ReservedCoreId", <<nid>>), b |-> b]
         ELSE IF nid \in DOMAIN b.mod_providers
              THEN [res |-> Err("ProviderAlreadyExists", <<nid>>), b |-> b]
              ELSE LET waiting == {g \in GameProviderObjs :
                                      /\ IsOk(normalize_id(GameProviderId(g)))
                                      /\ normalize_id(GameModProviderId(g)) = Ok(nid)
                                      /\ normalize_id(GameProviderId(g))[2] \notin DOMAIN b.games}
                       entered == [k \in {normalize_id(GameProviderId(g))[2] : g \in waiting} |->
                                     LET g == CHOOSE g \in waiting :
                                                 normalize_id(GameProviderId(g))[2] = k
                                     IN GameEntry(k, source, g, nid)]
                   IN [res |-> Ok(Unit),
                       b |-> [mod_providers |->
                                Insert(b.mod_providers, nid, ProviderEntry(nid, source, provider)),
                              games |-> entered @@ b.games]]

\* register_mod_provider with the reserved prefix looked for in the raw id
register_mod_provider_rawprefix(b, id, provider, source) ==
    LET n == normalize_id(id) IN
    IF IsErr(n) THEN [res |-> n, b |-> b]
    ELSE LET nid == n[2] IN
         IF StartsWith(id, CorePrefix) /\ source # Core
         THEN [res |-> Err("ReservedCoreId", <<nid>>), b |-> b]
         ELSE IF nid \in DOMAIN b.mod_providers
              THEN [res |-> Err("ProviderAlreadyExists", <<nid>>), b |-> b]
              ELSE [res |-> Ok(Unit),
                    b |-> [b EXCEPT !.mod_providers =
                              Insert(@, nid, ProviderEntry(nid, source, provider))]]

\* register_mod_provider entering the refused reserved id all the same
register_mod_provider_reserved_insert(b, id, provider, source) ==
    LET n == normalize_id(id) IN
    IF IsErr(n) THEN [res |-> n, b |-> b]
    ELSE LET nid == n[2] IN
         IF nid \in DOMAIN b.mod_providers
         THEN [res |-> IF StartsWith(nid, CorePrefix) /\ source # Core
                       THEN Err("ReservedCoreId", <<nid>>)
                       ELSE Err("ProviderAlreadyExists", <<nid>>),
               b |-> b]
         ELSE [res |-> IF StartsWith(nid, CorePrefix) /\ source # Core
                       THEN Err("ReservedCoreId", <<nid>>)
                       ELSE Ok(Unit),
               b |-> [b EXCEPT !.mod_providers =
                         Insert(@, nid, ProviderEntry(nid, source, provider))]]

\* register_provider looking for a duplicate before the reserved namespace
register_mod_provider_dupfirst(b, id, provider, source) ==
    LET n == normalize_id(id) IN
    IF IsErr(n) THEN [res |-> n, b |-> b]
    ELSE LET nid == n[2] IN
         IF nid \in DOMAIN b.mod_providers
         THEN [res |-> Err("ProviderAlreadyExists", <<nid>>), b |-> b]
         ELSE IF StartsWith(nid, CorePrefix) /\ source # Core
              THEN [res |-> Err("ReservedCoreId", <<nid>>), b |-> b]
              ELSE [res |-> Ok(Unit),
                    b |-> [b EXCEPT !.mod_providers =
                              Insert(@, nid, ProviderEntry(nid, source, provider))]]

\* ContextBuilder::register_mod_provider on builder b: the result and the builder after
register_mod_provider(b, id, provider, source) ==
    LET n == normalize_id(id) IN
    IF IsErr(n) THEN [res |-> n, b |-> b]
    ELSE LET nid == n[2] IN
         IF StartsWith(nid, CorePrefix) /\ source # Core
         THEN [res |-> Err("ReservedCoreId", <<nid>>), b |-> b]
         ELSE IF nid \in DOMAIN b.mod_providers
              THEN [res |-> Err("ProviderAlreadyExists", <<nid>>), b |-> b]
              ELSE [res |-> Ok(Unit),
                    b |-> [b EXCEPT !.mod_providers =
                              Insert(@, nid, ProviderEntry(nid, source, provider))]]

\* register_game_provider entering the game before it checks the dependency
register_game_provider_insertfirst(b, provider, source) ==
    LET n == normalize_id(GameProviderId(provider)) IN
    IF IsErr(n) THEN [res |-> n, b |-> b]
    ELSE LET id == n[2] IN
         IF id \in DOMAIN b.games
         THEN [res |-> Err("GameAlreadyExists", <<id>>), b |-> b]
         ELSE LET d == normalize_id(GameModProviderId(provider)) IN
              IF IsErr(d) THEN [res |-> d, b |-> b]
              ELSE [res |-> IF d[2] \notin DOMAIN b.mod_providers
                            THEN Err("NotFound", <<d[2]>>)
                            ELSE Ok(Unit),
                    b |-> [b EXCEPT !.games =
                              Insert(@, id, GameEntry(id, source, provider, d[2]))]]

\* register_game_provider without the contains_key check on the dependency
register_game_provider_nodep(b, provider, source) ==
    LET n == normalize_id(GameProviderId(provider)) IN
    IF IsErr(n) THEN [res |-> n, b |-> b]
    ELSE LET id == n[2] IN
         IF id \in DOMAIN b.games
         THEN [res |-> Err("GameAlreadyExists", <<id>>), b |-> b]
         ELSE LET d == normalize_id(GameModProviderId(provider)) IN
              IF IsErr(d) THEN [res |-> d, b |-> b]
              ELSE [res |-> Ok(Unit),
                    b |-> [b EXCEPT !.games =
                              Insert(@, id, GameEntry(id, source, provider, d[2]))]]

\* register_game_provider recording the dependency id as the provider reports it
register_game_provider_rawdep(b, provider, source) ==
    LET n == normalize_id(GameProviderId(provider)) IN
    IF IsErr(n) THEN [res |-> n, b |-> b]
    ELSE LET id == n[2] IN
         IF id \in DOMAIN b.games
         THEN [res |-> Err("GameAlreadyExists", <<id>>), b |-> b]
         ELSE LET d == normalize_id(GameModProviderId(provider)) IN
              IF IsErr(d) THEN [res |-> d, b |-> b]
              ELSE LET depends_on == d[2] IN
                   IF depends_on \notin DOMAIN b.mod_providers
                   THEN [res |-> Err("NotFound", <<depends_on>>), b |-> b]
                   ELSE [res |-> Ok(Unit),
                         b |-> [b EXCEPT !.games =
                                   Insert(@, id, GameEntry(id, source, provider,
                                                           GameModProviderId(provider)))]]

\* register_game_provider refusing a duplicate after replacing the stored entry
register_game_provider_replace(b, provider, source) ==
    LET n == normalize_id(GameProviderId(provider)) IN
    IF IsErr(n) THEN [res |-> n, b |-> b]
    ELSE LET id == n[2]
             d == normalize_id(GameModProviderId(provider))
         IN
         IF id \in DOMAIN b.games
         THEN [res |-> Err("GameAlreadyExists", <<id>>),
               b |-> IF IsOk(d) /\ d[2] \in DOMAIN b.mod_providers
                     THEN [b EXCEPT !.games =
                              Insert(@, id, GameEntry(id, source, provider, d[2]))]
                     ELSE b]
         ELSE IF IsErr(d) THEN [res |-> d, b |-> b]
              ELSE LET depends_on == d[2] IN
                   IF depends_on \notin DOMAIN b.mod_providers
                   THEN [res |-> Err("NotFound", <<depends_on>>), b |-> b]
                   ELSE [res |-> Ok(Unit),
                         b |-> [b EXCEPT !.games =
                                   Insert(@, id, GameEntry(id, source, provider, depends_on))]]

\* ContextBuilder::register_game_provider on builder b: the result and the builder after
register_game_provider(b, provider, source) ==
    LET n == normalize_id(GameProviderId(provider)) IN
    IF IsErr(n) THEN [res |-> n, b |-> b]
    ELSE LET id == n[2] IN
         IF id \in DOMAIN b.games
         THEN [res |-> Err("GameAlreadyExists", <<id>>), b |-> b]
         ELSE LET d == normalize_id(GameModProviderId(provider)) IN
              IF IsErr(d) THEN [res |-> d, b |-> b]
              ELSE LET depends_on == d[2] IN
                   IF depends_on \notin DOMAIN b.mod_providers
                   THEN [res |-> Err("NotFound", <<depends_on>>), b |-> b]
                   ELSE [res |-> Ok(Unit),
                         b |-> [b EXCEPT !.games =
                                   Insert(@, id, GameEntry(id, source, provider, depends_on))]]

\* freeze moving the provider map only
freeze_nogames(b) ==
    [mod_providers |-> b.mod_providers,
     game_providers |-> EmptyMap,
     active_game |-> None]

\* ContextBuilder::freeze: the Context's maps and the content of its active_game Mutex
freeze(b) ==
    [mod_providers |-> b.mod_providers,
     game_providers |-> b.games,
     active_game |-> None]

-----------------------------------------------------------------------------
(* runtime/context.rs: Context, the lookups that read only the frozen maps *)

\* the ids passed to get_mod_provider
ProviderLookupIds == {S_ModA_Upper, S_CoreBase, S_Unknown, S_BadId}

\* the ids passed to get_game_provider, get_metadata and activate_game
GameLookupIds == {S_GameX, S_CoreG, S_Unknown, S_BadId}

\* the mod ids passed to get_extended_info
ModIds == {S_InstalledMod, S_BadId}

\* what GameProvider::metadata() of game object g returns
Metadata(g) == <<"GameMetadata", g>>

\* what ModProvider::get_extended_mod(mod_id) of provider object p returns
ExtendedMod(p, mod_id) == <<"ModExtendedMetadata", p, mod_id>>

\* get_mod_provider searching for the id as it was passed
get_mod_provider_raw(c, id) ==
    LET n == normalize_id(id) IN
    IF IsErr(n) THEN n
    ELSE IF id \in DOMAIN c.mod_providers
         THEN Ok(c.mod_providers[id].provider)
         ELSE Err("NotFound", <<n[2]>>)

\* Context::get_mod_provider
get_mod_provider(c, id) ==
    LET n == normalize_id(id) IN
    IF IsErr(n) THEN n
    ELSE IF n[2] \in DOMAIN c.mod_providers
         THEN Ok(c.mod_providers[n[2]].provider)
         ELSE Err("NotFound", <<n[2]>>)

\* Context::get_game_provider
get_game_provider(c, id) ==
    LET n == normalize_id(id) IN
    IF IsErr(n) THEN n
    ELSE IF n[2] \in DOMAIN c.game_providers
         THEN Ok(c.game_providers[n[2]].game)
         ELSE Err("NotFound", <<n[2]>>)

\* the orders in which HashMap::values() may yield the entries of map
ValueOrders(map) ==
    LET n == Cardinality(DOMAIN map) IN
    {[i \in 1..n |-> map[ks[i]]] :
        ks \in {f \in [1..n -> DOMAIN map] : \A i, j \in 1..n : i # j => f[i] # f[j]}}

\* list_mod_providers reporting every provider as a Core one
list_mod_providers_core(c) ==
    {[i \in 1..Len(vs) |-> <<vs[i].id, Core>>] :
        vs \in ValueOrders(c.mod_providers)}

\* Context::list_mod_providers: the vectors it may return
list_mod_providers(c) ==
    {[i \in 1..Len(vs) |-> <<vs[i].id, vs[i].source>>] :
        vs \in ValueOrders(c.mod_providers)}

\* Context::list_games: the vectors it may return
list_games(c) ==
    {[i \in 1..Len(vs) |-> <<vs[i].id, vs[i].source, vs[i].required_provider_id>>] :
        vs \in ValueOrders(c.game_providers)}

\* Context::get_metadata
get_metadata(c, id) ==
    LET n == normalize_id(id) IN
    IF IsErr(n) THEN n
    ELSE IF n[2] \in DOMAIN c.game_providers
         THEN Ok(Metadata(c.game_providers[n[2]].game))
         ELSE Err("NotFound", <<n[2]>>)

\* activate_game without the contains_key check
activate_game_check_any(c, id) == normalize_id(id)

\* Context::activate_game up to the lock: the id to store, or the error returned
activate_game_check(c, id) ==
    LET n == normalize_id(id) IN
    IF IsErr(n) THEN n
    ELSE IF n[2] \notin DOMAIN c.game_providers
         THEN Err("NotFound", <<n[2]>>)
         ELSE Ok(n[2])

\* active_game_required_provider falling back to a registered game when the slot is empty
active_game_required_provider_default(c, active) ==
    IF active = None
    THEN IF DOMAIN c.game_providers = {} THEN None
         ELSE Some(c.game_providers[CHOOSE g \in DOMAIN c.game_providers : TRUE]
                      .required_provider_id)
    ELSE IF active[1] \in DOMAIN c.game_providers
         THEN Some(c.game_providers[active[1]].required_provider_id)
         ELSE None

\* active_game_required_provider answering only for games that depend on a core provider
active_game_required_provider_coreonly(c, active) ==
    IF active = None THEN None
    ELSE IF /\ active[1] \in DOMAIN c.game_providers
            /\ is_core_id(c.game_providers[active[1]].required_provider_id)
         THEN Some(c.game_providers[active[1]].required_provider_id)
         ELSE None

\* Context::active_game_required_provider, given the slot value active_game() returned
active_game_required_provider(c, active) ==
    IF active = None THEN None
    ELSE IF active[1] \in DOMAIN c.game_providers
         THEN Some(c.game_providers[active[1]].required_provider_id)
         ELSE None

\* get_extended_info calling whichever provider the map yields first
get_extended_info_provider_first(c, active) ==
    LET provider == active_game_required_provider(c, active) IN
    IF provider = None THEN Err("NotFound", <<S_NoActiveGame>>)
    ELSE Ok(c.mod_providers[CHOOSE k \in DOMAIN c.mod_providers : TRUE].provider)

\* Context::get_extended_info between reading the slot and calling the provider:
\* the provider object to call, or the error returned
get_extended_info_provider(c, active) ==
    LET provider == active_game_required_provider(c, active) IN
    IF provider = None THEN Err("NotFound", <<S_NoActiveGame>>)
    ELSE IF provider[1] \notin DOMAIN c.mod_providers
         THEN Err("NotFound", <<provider[1]>>)
         ELSE Ok(c.mod_providers[provider[1]].provider)

-----------------------------------------------------------------------------
(* capabilities/: delegates over a non-owning reference to their provider.  *)
(* A Weak<T> or Arc<T> is the pair of its kind and the allocation it names; *)
(* ApiKeyValidationError and CapabilityError are <<"Err", variant, fields>>.*)

REQUIRES_API_KEY == "vmm.mod.requires_api_key"

CONFIGURABLE_MODS == "vmm.game.configurable_mods"

\* the concrete types behind a dyn Capability, and one no capability here has
ApiKeyCapabilityType == "ApiKeyCapability<DummyModProvider>"

ConfigurableModsCapabilityType == "ConfigurableModsCapability<T>"

SimpleCapType == "SimpleCap"

CapabilityTypes ==
    {ApiKeyCapabilityType, ConfigurableModsCapabilityType, SimpleCapType,
     "ApiKeyCapability<OtherProvider>"}

\* the one provider allocation of the model
OwnerAlloc == "owner"

Weak(alloc) == <<"Weak", alloc>>

Arc(alloc) == <<"Arc", alloc>>

\* ApiKeyCapability holding a strong reference to its provider
ApiKeyCapability_strong(weak) ==
    [id |-> REQUIRES_API_KEY, type |-> ApiKeyCapabilityType, inner |-> Arc(weak[2])]

\* ApiKeyCapability::new, with the id its impl of Capability returns
ApiKeyCapability(weak) ==
    [id |-> REQUIRES_API_KEY, type |-> ApiKeyCapabilityType, inner |-> weak]

\* ConfigurableModsCapability::new, with the id its impl of Capability returns
ConfigurableModsCapability(weak) ==
    [id |-> CONFIGURABLE_MODS, type |-> ConfigurableModsCapabilityType, inner |-> weak]

\* struct SimpleCap; capability!(SimpleCap, "test.simple")
SimpleCap == [id |-> "test.simple", type |-> SimpleCapType]

\* Capability::id
Capability_id(cap) == cap.id

\* Capability::as_any: every impl returns self
as_any(cap) == cap

\* <dyn Any>::downcast_ref::<T>
downcast_ref(any, T) == IF any.type = T THEN Some(any) ELSE None

\* CapabilityCastExt::get::<T>
get(cap, T) == downcast_ref(as_any(cap), T)

\* as_requires_api_key answering Some(self) in the trait's default
as_requires_api_key_any(cap) == Some(cap)

\* Capability::as_requires_api_key: ApiKeyCapability overrides the default
as_requires_api_key(cap) ==
    IF cap.type = ApiKeyCapabilityType THEN Some(cap) ELSE None

\* CapabilityBuilder::new_from_weak
new_from_weak(weak) == [weak |-> weak, caps |-> <<>>]

\* api_key putting its delegate in the place of the list
api_key_replace(b) == [b EXCEPT !.caps = <<ApiKeyCapability(b.weak)>>]

\* CapabilityBuilder::api_key
api_key(b) == [b EXCEPT !.caps = Append(@, ApiKeyCapability(b.weak))]

\* CapabilityBuilder::finish
finish(b) == b.caps

\* the strong references to their provider that the capabilities of cs hold
StrongRefs(cs) == Cardinality({i \in DOMAIN cs : cs[i].inner[1] = "Arc"})

\* Weak::upgrade on a provider whose strong count is count
upgrade(count) == IF count > 0 THEN Some(Arc(OwnerAlloc)) ELSE None

\* ApiKeyCapability::inner, ConfigurableModsCapability::inner: upgrade().ok_or(ProviderDropped)
inner(up) == IF up = None THEN Err("ProviderDropped", <<>>) ELSE Ok(up[1])

\* a bool returned by a method
Bool(b) == <<"Bool", b>>

\* The methods of the delegates: in is what self.inner() returned and r
\* what the provider's own method returns when it is called

\* on_provided hiding the provider's validation errors
on_provided_masked(in, r) ==
    IF IsOk(in) THEN (IF IsErr(r) THEN Err("ProviderError", <<>>) ELSE r)
    ELSE Err("ProviderError", <<>>)

on_provided(in, r) ==
    IF IsOk(in) THEN r ELSE Err("ProviderError", <<>>)

on_rejected(in, r) ==
    IF IsOk(in) THEN r ELSE Unit

\* needs_prompt asking for a key when the provider is gone
needs_prompt_default(in, r) ==
    IF IsOk(in) THEN r ELSE Bool(TRUE)

needs_prompt(in, r) ==
    IF IsOk(in) THEN r ELSE Bool(FALSE)

render(in, r) ==
    IF IsOk(in) THEN r ELSE in

\* get_configurable answering for a provider that is gone
get_configurable_stale(in, r) ==
    IF IsOk(in) THEN r ELSE Some(<<"FormSchema", "Configure", <<>>>>)

get_configurable(in, r) ==
    IF IsOk(in) THEN r ELSE None

apply_configuration(in, r) ==
    IF IsOk(in) THEN r ELSE Unit

\* the methods of each delegate type
MethodsOf(cap) ==
    IF cap.id = REQUIRES_API_KEY
    THEN {"on_provided", "on_rejected", "needs_prompt", "render"}
    ELSE {"get_configurable", "apply_configuration"}

\* the delegate's method op, returning
DelegateResult(op, in, r) ==
    CASE op = "on_provided" -> on_provided(in, r)
      [] op = "on_rejected" -> on_rejected(in, r)
      [] op = "needs_prompt" -> needs_prompt(in, r)
      [] op = "render" -> render(in, r)
      [] op = "get_configurable" -> get_configurable(in, r)
      [] op = "apply_configuration" -> apply_configuration(in, r)

-----------------------------------------------------------------------------
(* The provider behind the delegates: DummyModProvider of tests/dummy.rs   *)
(* for RequiresApiKey; ConfigurableModsBehavior has no implementor, its    *)
(* get_configurable may return any Option<FormSchema>.                     *)

MinKeyLen == 16

S_KeyBlank == <<" ", " ">>

S_KeyShort == <<"S", "H", "O", "R", "T">>

S_KeyValid == <<"A", "B", "C", "D", "E", "F", "G", "H", "I", "J", "K", "L", "M",
                "N", "O", "P">>

ApiSubmitResponse(value) == [id |-> "api_key", value |-> value]

\* the submission lists handed to on_provided
Submissions ==
    {<<>>, <<ApiSubmitResponse(<<>>)>>, <<ApiSubmitResponse(S_KeyBlank)>>,
     <<ApiSubmitResponse(S_KeyShort)>>, <<ApiSubmitResponse(S_KeyValid)>>}

\* the existing_key arguments handed to needs_prompt
ExistingKeys == {None, Some(<<>>), Some(S_KeyValid)}

ApiKeySchema == <<"FormSchema", "Enter key", <<"api_key">>>>

ModSchema == <<"FormSchema", "Configure", <<"option">>>>

\* DummyModProvider::on_provided
Dummy_on_provided(value) ==
    IF value = <<>> THEN Err("Empty", <<>>)
    ELSE LET first == value[1] IN
         IF Trim(first.value) = <<>> THEN Err("Empty", <<>>)
         ELSE IF ByteLen(first.value) < MinKeyLen THEN Err("TooShort", <<MinKeyLen>>)
              ELSE Ok("Store")

\* DummyModProvider::needs_prompt
Dummy_needs_prompt(existing_key) ==
    IF existing_key = None THEN Bool(TRUE)
    ELSE IF existing_key[1] = <<>> THEN Bool(TRUE) ELSE Bool(FALSE)

\* DummyModProvider::render
Dummy_render == Ok(ApiKeySchema)

\* the calls made on the delegates: method and arguments
DelegateCalls(cap) ==
    IF cap.id = REQUIRES_API_KEY
    THEN {<<"on_provided", <<v>>>> : v \in Submissions}
         \cup {<<"needs_prompt", <<k>>>> : k \in ExistingKeys}
         \cup {<<"render", <<>>>>, <<"on_rejected", <<>>>>}
    ELSE {<<"get_configurable", <<m>>>> : m \in ModIds}
         \cup {<<"apply_configuration", <<m, <<>>>>>> : m \in ModIds}

\* what the provider's own method op may return for args
OwnerResults(op, args) ==
    CASE op = "on_provided" -> {Dummy_on_provided(args[1])}
      [] op = "on_rejected" -> {Unit}
      [] op = "needs_prompt" -> {Dummy_needs_prompt(args[1])}
      [] op = "render" -> {Dummy_render}
      [] op = "get_configurable" -> {None, Some(ModSchema)}
      [] op = "apply_configuration" -> {Unit}

-----------------------------------------------------------------------------
(* State *)

Threads == {"t1", "t2"}

Free == "free"

NoLocals == [arg |-> <<>>, id |-> <<>>, provider |-> None]

NoCall == [op |-> "none", thread |-> "none", arg |-> <<>>, res |-> <<"None", <<>>>>]

Call(op, t, arg, res) == [op |-> op, thread |-> t, arg |-> arg, res |-> res]

Callers == {"c1", "c2"}

MaxCaps == 2

MaxHandles == 2

MaxCapRefs == 1

NoDelegateCall == [op |-> "none", caller |-> "none", cap |-> 0, args |-> <<>>, res |-> <<>>]

DelegateCall(op, c, i, args, res) ==
    [op |-> op, caller |-> c, cap |-> i, args |-> args, res |-> res]

NoDelegateLocals == [cap |-> 0, op |-> "none", args |-> <<>>]

NotCalled == <<"NotCalled", <<>>>>

NoProbe == [op |-> "none", cap |-> 0, type |-> "none", res |-> NotCalled]

Probe(op, i, type, res) == [op |-> op, cap |-> i, type |-> type, res |-> res]

\* Arc::new_cyclic has allocated the provider and runs its closure:
\* CapabilityBuilder::new_from_weak(weak_self.clone())
\* the threads that call context and set_context on one DefaultProviderApi
ApiCallers == {"a1", "a2", "a3"}

\* the Arc<Context> values handed to set_context
Contexts == {"ctx1", "ctx2", "ctx3"}

NoApiCall == [op |-> "none", caller |-> "none", arg |-> "none", res |-> NotCalled]

ApiCall(op, c, arg, res) == [op |-> op, caller |-> c, arg |-> arg, res |-> res]

\* panic!(msg)
Panic(msg) == <<"Panic", msg>>

CapInit ==
    /\ owner = "building"
    /\ strong = 0
    /\ handles = 0
    /\ cap_builder = Some(new_from_weak(Weak(OwnerAlloc)))
    /\ caps = <<>>
    /\ cap_refs = <<>>
    /\ dpc = [c \in Callers |-> "idle"]
    /\ dloc = [c \in Callers |-> NoDelegateLocals]
    /\ dlast = NoDelegateCall
    /\ invoked = None
    /\ resolved = {}
    /\ attached = 0
    /\ probed = NoProbe

RegInit ==
    /\ builder = Some(NewBuilder)
    /\ ctx = None
    /\ active_game = None
    /\ lock = Free
    /\ pc = [t \in Threads |-> "idle"]
    /\ loc = [t \in Threads |-> NoLocals]
    /\ last = NoCall
    /\ activated = FALSE
    /\ rejected = {}
    /\ last_locked = None

NormInit ==
    /\ n_raw = <<>>
    /\ n_res = NotCalled
    /\ n_core = NotCalled

\* DefaultProviderApi::new
ApiInit ==
    /\ context_cell = None
    /\ semaphore = "available"
    /\ apc = [c \in ApiCallers |-> "idle"]
    /\ aloc = [c \in ApiCallers |-> "none"]
    /\ alast = NoApiCall
    /\ set_ok = {}

Init == RegInit /\ CapInit /\ NormInit /\ ApiInit

-----------------------------------------------------------------------------
(* The builder phase: the thread that owns the ContextBuilder *)

RegisterModProvider(id, provider, source) ==
    /\ builder # None
    /\ LET r == register_mod_provider(builder[1], id, provider, source) IN
       /\ builder' = Some(r.b)
       /\ last' = Call("register_mod_provider", "main", <<id, provider, source>>, r.res)
    /\ UNCHANGED <<ctx, active_game, lock, pc, loc, activated, rejected>>
    /\ UNCHANGED <<capvars, normvars, apivars, last_locked>>

RegisterGameProvider(provider, source) ==
    /\ builder # None
    /\ LET r == register_game_provider(builder[1], provider, source) IN
       /\ builder' = Some(r.b)
       /\ last' = Call("register_game_provider", "main", <<provider, source>>, r.res)
       /\ rejected' = IF IsErr(r.res) /\ ErrKind(r.res) = "NotFound"
                      THEN rejected \cup {normalize_id(GameProviderId(provider))[2]}
                      ELSE rejected
    /\ UNCHANGED <<ctx, active_game, lock, pc, loc, activated>>
    /\ UNCHANGED <<capvars, normvars, apivars, last_locked>>

Freeze ==
    /\ builder # None
    /\ LET c == freeze(builder[1]) IN
       /\ ctx' = Some([mod_providers |-> c.mod_providers,
                       game_providers |-> c.game_providers])
       /\ active_game' = c.active_game
    /\ builder' = None
    /\ lock' = Free
    /\ last' = Call("freeze", "main", <<>>, Ok(Unit))
    /\ rejected' = {}
    /\ UNCHANGED <<pc, loc, activated>>
    /\ UNCHANGED <<capvars, normvars, apivars, last_locked>>

-----------------------------------------------------------------------------
(* The frozen phase: the threads that share the Context.  A method that    *)
(* reads only the frozen maps is one step.  A method that takes the        *)
(* active_game Mutex is one step up to and including lock(), which is      *)
(* enabled only while the Mutex is free, and one step from there to the    *)
(* release of the guard; get_extended_info has a further step, the         *)
(* completion of the provider's future.                                    *)

Idle(t) == ctx # None /\ pc[t] = "idle"

\* a step of thread t that returns res from op(arg) and leaves the slot and the lock alone
Return(t, op, arg, res) ==
    /\ last' = Call(op, t, arg, res)
    /\ UNCHANGED <<builder, ctx, active_game, lock, pc, loc, activated, rejected>>
    /\ UNCHANGED <<capvars, normvars, apivars, last_locked>>

GetModProvider(t, id) ==
    /\ Idle(t)
    /\ Return(t, "get_mod_provider", <<id>>, get_mod_provider(ctx[1], id))

GetGameProvider(t, id) ==
    /\ Idle(t)
    /\ Return(t, "get_game_provider", <<id>>, get_game_provider(ctx[1], id))

ListModProviders(t) ==
    /\ Idle(t)
    /\ \E v \in list_mod_providers(ctx[1]) : Return(t, "list_mod_providers", <<>>, v)

ListGames(t) ==
    /\ Idle(t)
    /\ \E v \in list_games(ctx[1]) : Return(t, "list_games", <<>>, v)

GetMetadata(t, id) ==
    /\ Idle(t)
    /\ Return(t, "get_metadata", <<id>>, get_metadata(ctx[1], id))

\* activate_game returning at the `?` of normalize_id or at the contains_key check
ActivateGameFail(t, id) ==
    /\ Idle(t)
    /\ IsErr(activate_game_check(ctx[1], id))
    /\ Return(t, "activate_game", <<id>>, activate_game_check(ctx[1], id))

\* activate_game through self.active_game.lock()
ActivateGameLock(t, id) ==
    /\ Idle(t)
    /\ IsOk(activate_game_check(ctx[1], id))
    /\ lock = Free
    /\ lock' = t
    /\ pc' = [pc EXCEPT ![t] = "activate_write"]
    /\ loc' = [loc EXCEPT ![t] = [arg |-> <<id>>,
                                   id |-> activate_game_check(ctx[1], id)[2],
                                   provider |-> None]]
    /\ last' = NoCall
    /\ last_locked' = Some(activate_game_check(ctx[1], id)[2])
    /\ UNCHANGED <<builder, ctx, active_game, activated, rejected>>
    /\ UNCHANGED <<capvars, normvars, apivars>>

\* activate_game storing the id as it was passed
ActivateGameWrite_raw(t) ==
    /\ pc[t] = "activate_write"
    /\ lock = t
    /\ active_game' = Some(loc[t].arg[1])
    /\ lock' = Free
    /\ pc' = [pc EXCEPT ![t] = "idle"]
    /\ loc' = [loc EXCEPT ![t] = NoLocals]
    /\ last' = Call("activate_game", t, loc[t].arg, Ok(Unit))
    /\ activated' = TRUE
    /\ UNCHANGED <<builder, ctx, rejected>>
    /\ UNCHANGED <<capvars, normvars, apivars, last_locked>>

\* activate_game tearing the active game down when the same id is activated again
ActivateGameWrite_toggle(t) ==
    /\ pc[t] = "activate_write"
    /\ lock = t
    /\ active_game' = IF active_game = Some(loc[t].id) THEN None ELSE Some(loc[t].id)
    /\ lock' = Free
    /\ pc' = [pc EXCEPT ![t] = "idle"]
    /\ loc' = [loc EXCEPT ![t] = NoLocals]
    /\ last' = Call("activate_game", t, loc[t].arg, Ok(Unit))
    /\ activated' = TRUE
    /\ UNCHANGED <<builder, ctx, rejected>>
    /\ UNCHANGED <<capvars, normvars, apivars, last_locked>>

\* activate_game leaving a slot that is already set as it is
ActivateGameWrite_first(t) ==
    /\ pc[t] = "activate_write"
    /\ lock = t
    /\ active_game' = IF active_game = None THEN Some(loc[t].id) ELSE active_game
    /\ lock' = Free
    /\ pc' = [pc EXCEPT ![t] = "idle"]
    /\ loc' = [loc EXCEPT ![t] = NoLocals]
    /\ last' = Call("activate_game", t, loc[t].arg, Ok(Unit))
    /\ activated' = TRUE
    /\ UNCHANGED <<builder, ctx, rejected>>
    /\ UNCHANGED <<capvars, normvars, apivars, last_locked>>

\* activate_game: *active = Some(id); Ok(()) and the guard dropped
ActivateGameWrite(t) ==
    /\ pc[t] = "activate_write"
    /\ lock = t
    /\ active_game' = Some(loc[t].id)
    /\ lock' = Free
    /\ pc' = [pc EXCEPT ![t] = "idle"]
    /\ loc' = [loc EXCEPT ![t] = NoLocals]
    /\ last' = Call("activate_game", t, loc[t].arg, Ok(Unit))
    /\ activated' = TRUE
    /\ UNCHANGED <<builder, ctx, rejected>>
    /\ UNCHANGED <<capvars, normvars, apivars, last_locked>>

\* lock() in active_game, called directly (op "active_game"), from
\* active_game_required_provider or from get_extended_info
SlotLock(t, op, arg, id) ==
    /\ Idle(t)
    /\ lock = Free
    /\ lock' = t
    /\ pc' = [pc EXCEPT ![t] = op]
    /\ loc' = [loc EXCEPT ![t] = [arg |-> arg, id |-> id, provider |-> None]]
    /\ last' = NoCall
    /\ UNCHANGED <<builder, ctx, active_game, activated, rejected>>
    /\ UNCHANGED <<capvars, normvars, apivars, last_locked>>

ActiveGameLock(t) == SlotLock(t, "active_game", <<>>, <<>>)

\* active_game with Option::take in place of clone
ActiveGameRead_take(t) ==
    /\ pc[t] = "active_game"
    /\ lock = t
    /\ lock' = Free
    /\ pc' = [pc EXCEPT ![t] = "idle"]
    /\ loc' = [loc EXCEPT ![t] = NoLocals]
    /\ last' = Call("active_game", t, <<>>, active_game)
    /\ active_game' = None
    /\ UNCHANGED <<builder, ctx, activated, rejected>>
    /\ UNCHANGED <<capvars, normvars, apivars, last_locked>>

\* active_game: the clone of the slot returned and the guard dropped
ActiveGameRead(t) ==
    /\ pc[t] = "active_game"
    /\ lock = t
    /\ lock' = Free
    /\ pc' = [pc EXCEPT ![t] = "idle"]
    /\ loc' = [loc EXCEPT ![t] = NoLocals]
    /\ last' = Call("active_game", t, <<>>, active_game)
    /\ UNCHANGED <<builder, ctx, active_game, activated, rejected>>
    /\ UNCHANGED <<capvars, normvars, apivars, last_locked>>

RequiredProviderLock(t) == SlotLock(t, "active_game_required_provider", <<>>, <<>>)

\* active_game_required_provider: active_game() returns, then the and_then on the maps
RequiredProviderRead(t) ==
    /\ pc[t] = "active_game_required_provider"
    /\ lock = t
    /\ lock' = Free
    /\ pc' = [pc EXCEPT ![t] = "idle"]
    /\ loc' = [loc EXCEPT ![t] = NoLocals]
    /\ last' = Call("active_game_required_provider", t, <<>>,
                    active_game_required_provider(ctx[1], active_game))
    /\ UNCHANGED <<builder, ctx, active_game, activated, rejected>>
    /\ UNCHANGED <<capvars, normvars, apivars, last_locked>>

\* get_extended_info returning at the `?` of normalize_id
ExtendedInfoFail(t, id) ==
    /\ Idle(t)
    /\ IsErr(normalize_id(id))
    /\ Return(t, "get_extended_info", <<id>>, normalize_id(id))

\* get_extended_info through lock() in active_game()
ExtendedInfoLock(t, id) ==
    /\ IsOk(normalize_id(id))
    /\ SlotLock(t, "get_extended_info", <<id>>, normalize_id(id)[2])

\* get_extended_info keeping the guard of the slot alive while the provider is called
ExtendedInfoRead_hold(t) ==
    /\ pc[t] = "get_extended_info"
    /\ lock = t
    /\ LET r == get_extended_info_provider(ctx[1], active_game) IN
       IF IsErr(r)
       THEN /\ lock' = Free
            /\ pc' = [pc EXCEPT ![t] = "idle"]
            /\ loc' = [loc EXCEPT ![t] = NoLocals]
            /\ last' = Call("get_extended_info", t, loc[t].arg, r)
       ELSE /\ lock' = t
            /\ pc' = [pc EXCEPT ![t] = "get_extended_mod"]
            /\ loc' = [loc EXCEPT ![t].provider = Some(r[2])]
            /\ last' = NoCall
    /\ UNCHANGED <<builder, ctx, active_game, activated, rejected>>
    /\ UNCHANGED <<capvars, normvars, apivars, last_locked>>

\* get_extended_info: active_game() returns and the guard is dropped; then the
\* provider is resolved and either an error is returned or the provider is called
ExtendedInfoRead(t) ==
    /\ pc[t] = "get_extended_info"
    /\ lock = t
    /\ lock' = Free
    /\ LET r == get_extended_info_provider(ctx[1], active_game) IN
       IF IsErr(r)
       THEN /\ pc' = [pc EXCEPT ![t] = "idle"]
            /\ loc' = [loc EXCEPT ![t] = NoLocals]
            /\ last' = Call("get_extended_info", t, loc[t].arg, r)
       ELSE /\ pc' = [pc EXCEPT ![t] = "get_extended_mod"]
            /\ loc' = [loc EXCEPT ![t].provider = Some(r[2])]
            /\ last' = NoCall
    /\ UNCHANGED <<builder, ctx, active_game, activated, rejected>>
    /\ UNCHANGED <<capvars, normvars, apivars, last_locked>>

\* get_extended_info reading the slot a second time for the provider it calls
ExtendedInfoReturn_reread(t) ==
    /\ pc[t] = "get_extended_mod"
    /\ pc' = [pc EXCEPT ![t] = "idle"]
    /\ loc' = [loc EXCEPT ![t] = NoLocals]
    /\ last' = Call("get_extended_info", t, loc[t].arg,
                    Ok(ExtendedMod(get_extended_info_provider(ctx[1], active_game)[2],
                                   loc[t].id)))
    /\ UNCHANGED <<builder, ctx, active_game, lock, activated, rejected>>
    /\ UNCHANGED <<capvars, normvars, apivars, last_locked>>

\* get_extended_info: provider.get_extended_mod(&id).await completes
ExtendedInfoReturn(t) ==
    /\ pc[t] = "get_extended_mod"
    /\ pc' = [pc EXCEPT ![t] = "idle"]
    /\ loc' = [loc EXCEPT ![t] = NoLocals]
    /\ last' = Call("get_extended_info", t, loc[t].arg,
                    Ok(ExtendedMod(loc[t].provider[1], loc[t].id)))
    /\ UNCHANGED <<builder, ctx, active_game, lock, activated, rejected>>
    /\ UNCHANGED <<capvars, normvars, apivars, last_locked>>

-----------------------------------------------------------------------------

\* the calls made on the ContextBuilder, with the inputs drawn from the given sets
BuilderStep(ids, providers, games, sources) ==
    \/ \E id \in ids, p \in providers, s \in sources : RegisterModProvider(id, p, s)
    \/ \E g \in games, s \in sources : RegisterGameProvider(g, s)
    \/ Freeze

\* the steps of caller thread t on the shared Context
ContextStep(t) ==
    \/ \E id \in ProviderLookupIds : GetModProvider(t, id)
    \/ \E id \in GameLookupIds : GetGameProvider(t, id)
    \/ ListModProviders(t)
    \/ ListGames(t)
    \/ \E id \in GameLookupIds : GetMetadata(t, id)
    \/ \E id \in GameLookupIds : ActivateGameFail(t, id)
    \/ \E id \in GameLookupIds : ActivateGameLock(t, id)
    \/ ActivateGameWrite(t)
    \/ ActiveGameLock(t)
    \/ ActiveGameRead(t)
    \/ RequiredProviderLock(t)
    \/ RequiredProviderRead(t)
    \/ \E id \in ModIds : ExtendedInfoFail(t, id)
    \/ \E id \in ModIds : ExtendedInfoLock(t, id)
    \/ ExtendedInfoRead(t)
    \/ ExtendedInfoReturn(t)

\* Every registration input, and one thread calling the Context
Next ==
    \/ BuilderStep(ProviderRawIds, ModProviderObjs, GameProviderObjs, Sources)
    \/ ContextStep("t1")

Spec == Init /\ [][Next]_vars

\* Two threads sharing the Context, built from registrations that succeed
NextConc ==
    \/ BuilderStep({S_ModA, S_CoreBase}, {"P1", "P2"}, {"GX", "GCore"}, {Core})
    \/ \E t \in Threads : ContextStep(t)

SpecConc == Init /\ [][NextConc]_vars

\* the synchronous code of thread t between lock() and the drop of the guard:
\* it has no await and no call out of the Context, so a thread that holds
\* the guard gets to the end of it
GuardedSection(t) ==
    \/ ActivateGameWrite(t)
    \/ ActiveGameRead(t)
    \/ RequiredProviderRead(t)
    \/ ExtendedInfoRead(t)

\* the steps of caller thread t in the methods that take the active_game lock
LockStep(t) ==
    \/ \E id \in GameLookupIds : ActivateGameFail(t, id)
    \/ \E id \in GameLookupIds : ActivateGameLock(t, id)
    \/ ActivateGameWrite(t)
    \/ ActiveGameLock(t)
    \/ ActiveGameRead(t)
    \/ RequiredProviderLock(t)
    \/ RequiredProviderRead(t)
    \/ \E id \in ModIds : ExtendedInfoFail(t, id)
    \/ \E id \in ModIds : ExtendedInfoLock(t, id)
    \/ ExtendedInfoRead(t)
    \/ ExtendedInfoReturn(t)

NextLock ==
    \/ BuilderStep({S_ModA, S_CoreBase}, {"P1", "P2"}, {"GX", "GCore"}, {Core})
    \/ \E t \in Threads : LockStep(t)

\* Two threads calling the methods that take the lock.  A thread holding the
\* guard runs on to its drop; a future returned by a provider may stay
\* pending forever (no fairness on ExtendedInfoReturn) and a caller need not
\* call again.  Every step of GuardedSection changes lock and pc.
SpecLock ==
    Init /\ [][NextLock]_vars /\ \A t \in Threads : WF_<<lock, pc>>(GuardedSection(t))

-----------------------------------------------------------------------------
(* A provider built as DummyModProvider::new builds itself, the handles to  *)
(* it, and the callers of its capability delegates.  A delegate call is one *)
(* step through self.inner(), which either fails and returns at once or     *)
(* leaves the caller holding the upgraded Arc, and one step in which the    *)
(* provider's own method runs, the Arc is dropped and the call returns.     *)

\* CapabilityBuilder::api_key inside the closure of Arc::new_cyclic
BuilderApiKey ==
    /\ owner = "building"
    /\ cap_builder # None
    /\ attached < MaxCaps
    /\ cap_builder' = Some(api_key(cap_builder[1]))
    /\ attached' = attached + 1
    /\ dlast' = NoDelegateCall
    /\ invoked' = None
    /\ UNCHANGED <<owner, strong, handles, caps, cap_refs, dpc, dloc, resolved>>
    /\ UNCHANGED <<regvars, normvars, apivars, probed>>

\* CapabilityBuilder::finish: the builder is consumed, its list is the provider's
BuilderFinish ==
    /\ owner = "building"
    /\ cap_builder # None
    /\ caps' = finish(cap_builder[1])
    /\ cap_builder' = None
    /\ dlast' = NoDelegateCall
    /\ invoked' = None
    /\ UNCHANGED <<owner, strong, handles, cap_refs, dpc, dloc, resolved>>
    /\ UNCHANGED <<regvars, normvars, apivars, attached, probed>>

\* the closure adds ConfigurableModsCapability::new(weak_self.clone()) to the list
PushConfigurableMods ==
    /\ owner = "building"
    /\ cap_builder = None
    /\ Len(caps) < MaxCaps
    /\ caps' = Append(caps, ConfigurableModsCapability(Weak(OwnerAlloc)))
    /\ dlast' = NoDelegateCall
    /\ invoked' = None
    /\ UNCHANGED <<owner, strong, handles, cap_builder, cap_refs, dpc, dloc, resolved>>
    /\ UNCHANGED <<regvars, normvars, apivars, attached, probed>>

\* Arc::new_cyclic returns the one strong handle to the finished provider
Construct ==
    /\ owner = "building"
    /\ cap_builder = None
    /\ owner' = "alive"
    /\ handles' = 1
    /\ strong' = 1 + StrongRefs(caps)
    /\ cap_refs' = [i \in DOMAIN caps |-> 0]
    /\ dlast' = NoDelegateCall
    /\ invoked' = None
    /\ UNCHANGED <<cap_builder, caps, dpc, dloc, resolved>>
    /\ UNCHANGED <<regvars, normvars, apivars, attached, probed>>

\* the strong count falls to count: at 0 the provider is destroyed
AfterDrop(count) == IF count = 0 THEN "dropped" ELSE owner

\* Arc::clone of a handle to the provider
CloneHandle ==
    /\ handles > 0
    /\ handles < MaxHandles
    /\ handles' = handles + 1
    /\ strong' = strong + 1
    /\ dlast' = NoDelegateCall
    /\ invoked' = None
    /\ UNCHANGED <<owner, cap_builder, caps, cap_refs, dpc, dloc, resolved>>
    /\ UNCHANGED <<regvars, normvars, apivars, attached, probed>>

\* drop of a handle to the provider
DropHandle ==
    /\ handles > 0
    /\ handles' = handles - 1
    /\ strong' = strong - 1
    /\ owner' = AfterDrop(strong - 1)
    /\ dlast' = NoDelegateCall
    /\ invoked' = None
    /\ UNCHANGED <<cap_builder, caps, cap_refs, dpc, dloc, resolved>>
    /\ UNCHANGED <<regvars, normvars, apivars, attached, probed>>

\* capability i can be named: through a handle to the provider
\* (provider.capabilities()[i]) or through a clone of its CapabilityRef
Reachable(i) ==
    /\ owner # "building"
    /\ i \in DOMAIN caps
    /\ handles > 0 \/ cap_refs[i] > 0

\* provider.capabilities()[i].clone(), or the clone of a clone
CloneCapability(i) ==
    /\ Reachable(i)
    /\ cap_refs[i] < MaxCapRefs
    /\ cap_refs' = [cap_refs EXCEPT ![i] = @ + 1]
    /\ dlast' = NoDelegateCall
    /\ invoked' = None
    /\ UNCHANGED <<owner, strong, handles, cap_builder, caps, dpc, dloc, resolved>>
    /\ UNCHANGED <<regvars, normvars, apivars, attached, probed>>

\* drop of a cloned CapabilityRef
DropCapability(i) ==
    /\ owner # "building"
    /\ i \in DOMAIN caps
    /\ cap_refs[i] > 0
    /\ cap_refs' = [cap_refs EXCEPT ![i] = @ - 1]
    /\ dlast' = NoDelegateCall
    /\ invoked' = None
    /\ UNCHANGED <<owner, strong, handles, cap_builder, caps, dpc, dloc, resolved>>
    /\ UNCHANGED <<regvars, normvars, apivars, attached, probed>>

\* a delegate that goes on trusting an owner it resolved once
DelegateResolve_cached(c, i, op, args) ==
    /\ Reachable(i)
    /\ dpc[c] = "idle"
    /\ LET in == IF i \in resolved THEN Ok(Arc(OwnerAlloc)) ELSE inner(upgrade(strong)) IN
       IF IsOk(in)
       THEN /\ strong' = strong + 1
            /\ dpc' = [dpc EXCEPT ![c] = "owner_call"]
            /\ dloc' = [dloc EXCEPT ![c] = [cap |-> i, op |-> op, args |-> args]]
            /\ dlast' = NoDelegateCall
            /\ resolved' = resolved \cup {i}
       ELSE /\ dlast' = DelegateCall(op, c, i, args, DelegateResult(op, in, <<>>))
            /\ UNCHANGED <<strong, dpc, dloc, resolved>>
    /\ invoked' = None
    /\ UNCHANGED <<owner, handles, cap_builder, caps, cap_refs>>
    /\ UNCHANGED <<regvars, normvars, apivars, attached, probed>>

\* a delegate calling through a borrowed provider without holding the Arc
DelegateResolve_borrow(c, i, op, args) ==
    /\ Reachable(i)
    /\ dpc[c] = "idle"
    /\ LET in == inner(upgrade(strong)) IN
       IF IsOk(in)
       THEN /\ strong' = strong
            /\ dpc' = [dpc EXCEPT ![c] = "owner_call"]
            /\ dloc' = [dloc EXCEPT ![c] = [cap |-> i, op |-> op, args |-> args]]
            /\ dlast' = NoDelegateCall
            /\ resolved' = resolved \cup {i}
       ELSE /\ dlast' = DelegateCall(op, c, i, args, DelegateResult(op, in, <<>>))
            /\ UNCHANGED <<strong, dpc, dloc, resolved>>
    /\ invoked' = None
    /\ UNCHANGED <<owner, handles, cap_builder, caps, cap_refs>>
    /\ UNCHANGED <<regvars, normvars, apivars, attached, probed>>

\* a delegate method through `match self.inner()`: on Err the method returns
\* its own outcome, on Ok(p) the caller holds p
DelegateResolve(c, i, op, args) ==
    /\ Reachable(i)
    /\ dpc[c] = "idle"
    /\ LET in == inner(upgrade(strong)) IN
       IF IsOk(in)
       THEN /\ strong' = strong + 1
            /\ dpc' = [dpc EXCEPT ![c] = "owner_call"]
            /\ dloc' = [dloc EXCEPT ![c] = [cap |-> i, op |-> op, args |-> args]]
            /\ dlast' = NoDelegateCall
            /\ resolved' = resolved \cup {i}
       ELSE /\ dlast' = DelegateCall(op, c, i, args, DelegateResult(op, in, <<>>))
            /\ UNCHANGED <<strong, dpc, dloc, resolved>>
    /\ invoked' = None
    /\ UNCHANGED <<owner, handles, cap_builder, caps, cap_refs>>
    /\ UNCHANGED <<regvars, normvars, apivars, attached, probed>>

\* the provider's own method runs on p and returns r, the delegate returns
\* and p is dropped
DelegateReturn(c) ==
    /\ dpc[c] = "owner_call"
    /\ \E r \in OwnerResults(dloc[c].op, dloc[c].args) :
          /\ invoked' = Some([op |-> dloc[c].op, args |-> dloc[c].args, res |-> r])
          /\ dlast' = DelegateCall(dloc[c].op, c, dloc[c].cap, dloc[c].args,
                                   DelegateResult(dloc[c].op, Ok(Arc(OwnerAlloc)), r))
    /\ strong' = strong - 1
    /\ owner' = AfterDrop(strong - 1)
    /\ dpc' = [dpc EXCEPT ![c] = "idle"]
    /\ dloc' = [dloc EXCEPT ![c] = NoDelegateLocals]
    /\ UNCHANGED <<handles, cap_builder, caps, cap_refs, resolved>>
    /\ UNCHANGED <<regvars, normvars, apivars, attached, probed>>

\* the steps of caller c on the delegates
DelegateStep(c) ==
    \/ \E i \in DOMAIN caps :
          \E call \in DelegateCalls(caps[i]) : DelegateResolve(c, i, call[1], call[2])
    \/ DelegateReturn(c)

\* the provider's construction, the handles and capability references held
\* outside it, and one caller of its delegates
NextCap ==
    \/ BuilderApiKey
    \/ BuilderFinish
    \/ PushConfigurableMods
    \/ Construct
    \/ CloneHandle
    \/ DropHandle
    \/ \E i \in 1..MaxCaps : CloneCapability(i)
    \/ \E i \in 1..MaxCaps : DropCapability(i)
    \/ DelegateStep("c1")

\* One provider, from its construction to its destruction, and its delegates
SpecCap == Init /\ [][NextCap]_vars

-----------------------------------------------------------------------------
(* Probing a dyn Capability: a capability of the provider's list, named     *)
(* through a handle or a cloned CapabilityRef, or a SimpleCap of its own    *)
(* (index 0).                                                               *)

CapabilityAt(i) == IF i = 0 THEN SimpleCap ELSE caps[i]

Probeable(i) == i = 0 \/ Reachable(i)

ProbeReturn(op, i, type, res) ==
    /\ probed' = Probe(op, i, type, res)
    /\ UNCHANGED <<owner, strong, handles, cap_builder, caps, cap_refs, dpc, dloc,
                   dlast, invoked, resolved, attached>>
    /\ UNCHANGED <<regvars, normvars, apivars>>

\* cap.id()
ProbeId(i) ==
    /\ Probeable(i)
    /\ ProbeReturn("id", i, "none", Capability_id(CapabilityAt(i)))

\* cap.as_requires_api_key()
ProbeAsRequiresApiKey(i) ==
    /\ Probeable(i)
    /\ ProbeReturn("as_requires_api_key", i, "none", as_requires_api_key(CapabilityAt(i)))

\* (&*cap as &dyn Capability).get::<T>()
ProbeGet(i, T) ==
    /\ Probeable(i)
    /\ ProbeReturn("get", i, T, get(CapabilityAt(i), T))

\* the ids find_capability is called with
FindIds == {REQUIRES_API_KEY, CONFIGURABLE_MODS, "test.simple"}

\* find_capability returning the last capability of the list with the id
find_capability_last(cs, id) ==
    IF \E i \in DOMAIN cs : Capability_id(cs[i]) = id
    THEN Some(CHOOSE i \in DOMAIN cs :
                 /\ Capability_id(cs[i]) = id
                 /\ \A j \in DOMAIN cs : Capability_id(cs[j]) = id => j <= i)
    ELSE None

\* capabilities().iter().map(|o| o.as_ref()).find(|o| o.id() == id) from
\* position i on: the position of the element the returned reference points to
RECURSIVE find_capability_from(_, _, _)
find_capability_from(cs, i, id) ==
    IF i > Len(cs) THEN None
    ELSE IF Capability_id(cs[i]) = id THEN Some(i)
         ELSE find_capability_from(cs, i + 1, id)

\* Provider::find_capability on a provider whose capabilities() is cs
find_capability(cs, id) == find_capability_from(cs, 1, id)

\* capabilities().iter().find_map(|o| o.as_ref().as_any().downcast_ref::<T>())
\* from position i on
RECURSIVE Provider_get_from(_, _, _)
Provider_get_from(cs, i, T) ==
    IF i > Len(cs) THEN None
    ELSE IF downcast_ref(as_any(cs[i]), T) # None THEN Some(i)
         ELSE Provider_get_from(cs, i + 1, T)

\* Provider::get::<T> on a provider whose capabilities() is cs
Provider_get(cs, T) == Provider_get_from(cs, 1, T)

\* provider.find_capability(id), by a holder of the provider; the probe
\* records the id in its `type` field
ProbeFindCapability(id) ==
    /\ owner = "alive"
    /\ handles > 0
    /\ ProbeReturn("find_capability", 0, id, find_capability(caps, id))

\* provider.get::<T>(), by a holder of the provider
ProbeProviderGet(T) ==
    /\ owner = "alive"
    /\ handles > 0
    /\ ProbeReturn("Provider::get", 0, T, Provider_get(caps, T))

NextProbe ==
    \/ \E id \in FindIds : ProbeFindCapability(id)
    \/ \E T \in CapabilityTypes : ProbeProviderGet(T)
    \/ BuilderApiKey
    \/ BuilderFinish
    \/ PushConfigurableMods
    \/ Construct
    \/ DropHandle
    \/ \E i \in 1..MaxCaps : CloneCapability(i)
    \/ \E i \in 0..MaxCaps : ProbeId(i)
    \/ \E i \in 0..MaxCaps : ProbeAsRequiresApiKey(i)
    \/ \E i \in 0..MaxCaps, T \in CapabilityTypes : ProbeGet(i, T)

\* One provider's capability list and a SimpleCap, probed by their holders
SpecProbe == Init /\ [][NextProbe]_vars

-----------------------------------------------------------------------------
(* DefaultProviderApi: the context cell *)

\* OnceCell::set taking the permit although another set holds it
OnceCell_set_racy(cell, sem) ==
    IF cell # None THEN Err("AlreadyInitializedError", <<>>) ELSE Ok(Unit)

\* self.context_cell.set(ctx) up to the permit: Err when the cell is
\* initialised, when another set holds the permit (InitializingError) or when
\* the semaphore is closed; Ok when this call took the permit
OnceCell_set(cell, sem) ==
    IF cell # None THEN Err("AlreadyInitializedError", <<>>)
    ELSE IF sem = "acquired" THEN Err("InitializingError", <<>>)
    ELSE IF sem = "closed" THEN Err("AlreadyInitializedError", <<>>)
    ELSE Ok(Unit)

\* DefaultProviderApi::context
DefaultProviderApi_context(cell) ==
    IF cell # None THEN Ok(cell[1]) ELSE Panic("Context not set!")

\* api.context()
ApiContext(c) ==
    /\ apc[c] = "idle"
    /\ alast' = ApiCall("context", c, "none", DefaultProviderApi_context(context_cell))
    /\ UNCHANGED <<context_cell, semaphore, apc, aloc, set_ok>>
    /\ UNCHANGED <<regvars, capvars, normvars>>

\* api.set_context(x) when context_cell.set(x).is_err()
SetContextPanic(c, x) ==
    /\ apc[c] = "idle"
    /\ IsErr(OnceCell_set(context_cell, semaphore))
    /\ alast' = ApiCall("set_context", c, x, Panic("Cannot set context twice!"))
    /\ UNCHANGED <<context_cell, semaphore, apc, aloc, set_ok>>
    /\ UNCHANGED <<regvars, capvars, normvars>>

\* api.set_context(x) when context_cell.set(x) takes the permit
SetContextAcquire(c, x) ==
    /\ apc[c] = "idle"
    /\ IsOk(OnceCell_set(context_cell, semaphore))
    /\ semaphore' = "acquired"
    /\ apc' = [apc EXCEPT ![c] = "set_value"]
    /\ aloc' = [aloc EXCEPT ![c] = x]
    /\ alast' = NoApiCall
    /\ UNCHANGED <<context_cell, set_ok>>
    /\ UNCHANGED <<regvars, capvars, normvars>>

\* api.set_context(x): the value is stored, the semaphore closed, and the
\* call returns
SetContextStore(c) ==
    /\ apc[c] = "set_value"
    /\ context_cell' = Some(aloc[c])
    /\ semaphore' = "closed"
    /\ apc' = [apc EXCEPT ![c] = "idle"]
    /\ aloc' = [aloc EXCEPT ![c] = "none"]
    /\ alast' = ApiCall("set_context", c, aloc[c], Ok(Unit))
    /\ set_ok' = set_ok \cup {<<c, aloc[c]>>}
    /\ UNCHANGED <<regvars, capvars, normvars>>

NextApi ==
    \/ \E c \in ApiCallers : ApiContext(c)
    \/ \E c \in ApiCallers, x \in Contexts : SetContextPanic(c, x)
    \/ \E c \in ApiCallers, x \in Contexts : SetContextAcquire(c, x)
    \/ \E c \in ApiCallers : SetContextStore(c)

\* One DefaultProviderApi shared by three threads; a set that holds the permit
\* runs to its end
SpecApi ==
    /\ Init
    /\ [][NextApi]_vars
    /\ \A c \in ApiCallers : WF_vars(SetContextStore(c))

-----------------------------------------------------------------------------
(* Calls of normalize_id: on every string of up to MaxRawLen characters of *)
(* RawChars, on strings at the length limit, and on its own results.       *)

MaxRawLen == 3

\* a lower-case and an upper-case letter, a digit, a punctuation character of
\* the id alphabet, the colon, whitespace, and an ASCII and a two-byte
\* character outside the alphabet
RawChars == {"a", "B", "0", ".", ":", " ", "$", "E'"}

\* str::repeat
Repeat(ch, n) == [i \in 1..n |-> ch]

\* the strings of boundary_lengths, and others as long
LongRawIds ==
    {Repeat("a", MaxIdLen),
     Repeat("a", MaxIdLen + 1),
     <<" ">> \o Repeat("A", MaxIdLen) \o <<" ">>,
     <<" ">> \o Repeat("A", MaxIdLen + 1),
     Repeat("a", MaxIdLen - 1) \o <<":">>,
     Repeat("a", MaxIdLen - 2) \o <<":", "a">>,
     <<"a", ":">> \o Repeat("b", MaxIdLen - 2),
     Repeat("a", MaxIdLen - 1) \o <<"E'">>}

S_core_x == <<"c", "o", "r", "e", ":", "x">>

S_corex_y == <<"c", "o", "r", "e", "x", ":", "y">>

S_Core_X == <<"C", "o", "r", "e", ":", "X">>

S_core_x_padded == <<" ", "c", "o", "r", "e", ":", "x">>

S_core_colon == <<"c", "o", "r", "e", ":">>

S_core == <<"c", "o", "r", "e">>

\* the strings of core_detection, and others at the edge of the reserved prefix
CoreRawIds ==
    {S_core_x, S_corex_y, S_Core_X, S_core_x_padded, S_core_colon, S_core,
     S_core_base, S_CoreBase, S_ModA}

RawIds ==
    UNION {[1..k -> RawChars] : k \in 0..MaxRawLen} \cup LongRawIds \cup CoreRawIds

InitNorm ==
    /\ RegInit
    /\ CapInit
    /\ ApiInit
    /\ n_raw \in RawIds
    /\ n_res = NotCalled
    /\ n_core = NotCalled

\* normalize_id(raw)
NormalizeId ==
    /\ n_res = NotCalled
    /\ n_res' = normalize_id(n_raw)
    /\ UNCHANGED <<n_raw, n_core, regvars, capvars, apivars>>

\* is_core_id(id), on the same string
IsCoreId ==
    /\ n_core = NotCalled
    /\ n_core' = Bool(is_core_id(n_raw))
    /\ UNCHANGED <<n_raw, n_res, regvars, capvars, apivars>>

\* the caller takes the String it got as the next argument
NormalizeAgain ==
    /\ IsOk(n_res)
    /\ n_raw' = n_res[2]
    /\ n_res' = NotCalled
    /\ n_core' = NotCalled
    /\ UNCHANGED <<regvars, capvars, apivars>>

NextNorm == NormalizeId \/ IsCoreId \/ NormalizeAgain

SpecNorm == InitNorm /\ [][NextNorm]_vars

-----------------------------------------------------------------------------
(* What the properties below read *)

\* the provider map: the builder's before freeze, the Context's after
ProviderMap == IF builder # None THEN builder[1].mod_providers ELSE ctx[1].mod_providers

\* the game map: the builder's before freeze, the Context's after
GameMap == IF builder # None THEN builder[1].games ELSE ctx[1].game_providers

\* the step just taken returned from op
Returned(op) == last.op = op

IsNotFound(r) == IsErr(r) /\ ErrKind(r) = "NotFound"

-----------------------------------------------------------------------------
(* C1: referential integrity.  In every state of the builder and of the    *)
(* frozen Context each stored GameEntry.required_provider_id is a key of   *)
(* the provider map; with an active game the provider lookup of            *)
(* get_extended_info succeeds, and get_extended_info never returns         *)
(* NotFound(provider id).                                                  *)
C1_ReferentialIntegrity ==
    /\ \A g \in DOMAIN GameMap :
          GameMap[g].required_provider_id \in DOMAIN ProviderMap
    /\ (ctx # None /\ active_game # None) =>
          IsOk(get_extended_info_provider(ctx[1], active_game))
    /\ (Returned("get_extended_info") /\ IsNotFound(last.res)) =>
          last.res[3] = <<S_NoActiveGame>>

\* get_extended_info has resolved the active game's provider and returned its answer
C1_Witness ==
    /\ ctx # None
    /\ active_game # None
    /\ Returned("get_extended_info")
    /\ IsOk(last.res)

-----------------------------------------------------------------------------
(* The registration calls, as the properties below read them from `last`   *)

\* the raw id, provider object and origin passed to the register_mod_provider
\* call that has just returned
ProviderCall == [id |-> last.arg[1], provider |-> last.arg[2], source |-> last.arg[3]]

\* the game provider object and origin passed to the register_game_provider
\* call that has just returned
GameCall == [provider |-> last.arg[1], source |-> last.arg[2]]

\* the step is a call on the builder that leaves it a builder (not freeze)
InBuilderStep == builder # None /\ builder' # None

-----------------------------------------------------------------------------
(* C2: a register_mod_provider call whose id normalises to one under       *)
(* `core:` fails with ReservedCoreId and leaves the builder as it was when *)
(* the origin is not Core; with origin Core and the id absent it returns   *)
(* Ok and stores a ProviderEntry of origin Core under the normalised id.   *)
C2_ReservedCore ==
    [][(/\ InBuilderStep
        /\ Returned("register_mod_provider")'
        /\ IsOk(normalize_id(ProviderCall.id'))
        /\ is_core_id(normalize_id(ProviderCall.id')[2]))
       => LET nid == normalize_id(ProviderCall.id')[2] IN
          IF ProviderCall.source' # Core
          THEN /\ last'.res = Err("ReservedCoreId", <<nid>>)
               /\ builder' = builder
          ELSE nid \notin DOMAIN builder[1].mod_providers =>
                  /\ last'.res = Ok(Unit)
                  /\ builder'[1].mod_providers =
                        Insert(builder[1].mod_providers, nid,
                               ProviderEntry(nid, Core, ProviderCall.provider'))
                  /\ builder'[1].games = builder[1].games]_vars

\* a Plugin registration of "Core:Base " has just been refused on a builder
\* that holds core:base with origin Core
C2_Witness ==
    /\ builder # None
    /\ Returned("register_mod_provider")
    /\ ProviderCall.id = S_CoreBase
    /\ ProviderCall.source # Core
    /\ last.res = Err("ReservedCoreId", <<S_core_base>>)
    /\ S_core_base \in DOMAIN builder[1].mod_providers
    /\ builder[1].mod_providers[S_core_base].source = Core

-----------------------------------------------------------------------------
(* C3, as claimed: a register_mod_provider call whose id normalises to a   *)
(* key of the provider map fails with ProviderAlreadyExists and leaves the *)
(* stored entry as it was.                                                 *)
C3_Original ==
    [][(/\ InBuilderStep
        /\ Returned("register_mod_provider")'
        /\ IsOk(normalize_id(ProviderCall.id'))
        /\ normalize_id(ProviderCall.id')[2] \in DOMAIN builder[1].mod_providers)
       => LET nid == normalize_id(ProviderCall.id')[2] IN
          /\ last'.res = Err("ProviderAlreadyExists", <<nid>>)
          /\ builder'[1].mod_providers[nid] = builder[1].mod_providers[nid]]_vars

(* C3, amended: a register_mod_provider call whose id normalises to a key  *)
(* of the provider map fails and leaves the builder, and so the entry      *)
(* stored by the first call, as it was; the error is ReservedCoreId when   *)
(* the id is under `core:` and the origin is not Core, and                 *)
(* ProviderAlreadyExists in every other case.                              *)
C3_Duplicate ==
    [][(/\ InBuilderStep
        /\ Returned("register_mod_provider")'
        /\ IsOk(normalize_id(ProviderCall.id'))
        /\ normalize_id(ProviderCall.id')[2] \in DOMAIN builder[1].mod_providers)
       => LET nid == normalize_id(ProviderCall.id')[2] IN
          /\ last'.res = IF is_core_id(nid) /\ ProviderCall.source' # Core
                         THEN Err("ReservedCoreId", <<nid>>)
                         ELSE Err("ProviderAlreadyExists", <<nid>>)
          /\ builder' = builder]_vars

\* "mod:a" was registered with one provider object and origin; a registration
\* of " Mod:A" with another object and origin has just been refused
C3_Witness ==
    /\ builder # None
    /\ Returned("register_mod_provider")
    /\ ProviderCall.id = S_ModA_Upper
    /\ last.res = Err("ProviderAlreadyExists", <<S_ModA>>)
    /\ S_ModA \in DOMAIN builder[1].mod_providers
    /\ builder[1].mod_providers[S_ModA].provider # ProviderCall.provider
    /\ builder[1].mod_providers[S_ModA].source # ProviderCall.source

-----------------------------------------------------------------------------
\* the normalised id and dependency id of game provider object g (when well formed)
GameIdOf(g) == normalize_id(GameProviderId(g))

DependencyOf(g) == normalize_id(GameModProviderId(g))

(* C4, as claimed: a register_game_provider call (of a game whose own id   *)
(* is well formed) whose normalised dependency id is not a key of the      *)
(* provider map fails with NotFound(dependency id) and inserts no          *)
(* GameEntry.                                                              *)
C4_Original ==
    [][(/\ InBuilderStep
        /\ Returned("register_game_provider")'
        /\ IsOk(GameIdOf(GameCall.provider'))
        /\ IsOk(DependencyOf(GameCall.provider'))
        /\ DependencyOf(GameCall.provider')[2] \notin DOMAIN builder[1].mod_providers)
       => /\ last'.res = Err("NotFound", <<DependencyOf(GameCall.provider')[2]>>)
          /\ builder'[1].games = builder[1].games]_vars

(* C4, amended: a register_game_provider call whose normalised dependency  *)
(* id is not a key of the provider map fails and leaves the builder as it  *)
(* was; the error is NotFound(dependency id) when the game's own id is     *)
(* well formed and not yet a key of the game map, InvalidId when the       *)
(* game's id is malformed, and GameAlreadyExists when it is registered.    *)
C4_MissingDependency ==
    [][(/\ InBuilderStep
        /\ Returned("register_game_provider")'
        /\ IsOk(DependencyOf(GameCall.provider'))
        /\ DependencyOf(GameCall.provider')[2] \notin DOMAIN builder[1].mod_providers)
       => LET g == GameCall.provider' IN
          /\ last'.res =
                IF IsErr(GameIdOf(g)) THEN GameIdOf(g)
                ELSE IF GameIdOf(g)[2] \in DOMAIN builder[1].games
                     THEN Err("GameAlreadyExists", <<GameIdOf(g)[2]>>)
                     ELSE Err("NotFound", <<DependencyOf(g)[2]>>)
          /\ builder' = builder]_vars

\* the registration of game-x, which depends on mod:a, has just failed with
\* NotFound(mod:a) on a builder that holds another provider and no game
C4_Witness ==
    /\ builder # None
    /\ Returned("register_game_provider")
    /\ GameCall.provider = "GX"
    /\ last.res = Err("NotFound", <<S_ModA>>)
    /\ DOMAIN builder[1].mod_providers = {S_core_base}
    /\ DOMAIN builder[1].games = {}

-----------------------------------------------------------------------------
(* C5: no deferred resolution.  A register_game_provider call made while   *)
(* the game's dependency is not a key of the provider map fails; an id     *)
(* enters the game map, of the builder or of the Context made from it,     *)
(* only in the step of a register_game_provider call for that id that      *)
(* returns Ok, and the dependency was a key of the provider map before     *)
(* that step; register_mod_provider and freeze add no game.                *)
C5_NoDeferredResolution ==
    [][/\ (/\ InBuilderStep
           /\ Returned("register_game_provider")'
           /\ IsOk(DependencyOf(GameCall.provider'))
           /\ DependencyOf(GameCall.provider')[2] \notin DOMAIN builder[1].mod_providers)
          => /\ IsErr(last'.res)
             /\ builder'[1].games = builder[1].games
       /\ \A id \in (DOMAIN GameMap') \ (DOMAIN GameMap) :
             /\ InBuilderStep
             /\ Returned("register_game_provider")'
             /\ last'.res = Ok(Unit)
             /\ GameIdOf(GameCall.provider') = Ok(id)
             /\ IsOk(DependencyOf(GameCall.provider'))
             /\ DependencyOf(GameCall.provider')[2] \in DOMAIN builder[1].mod_providers
             /\ GameMap'[id].required_provider_id = DependencyOf(GameCall.provider')[2]]_vars

\* a game's registration failed on its missing dependency; that provider has
\* just been registered, and the game is still not in the game map
C5_Witness ==
    /\ builder # None
    /\ Returned("register_mod_provider")
    /\ last.res = Ok(Unit)
    /\ \E g \in GameProviderObjs :
          /\ IsOk(GameIdOf(g))
          /\ GameIdOf(g)[2] \in rejected
          /\ DependencyOf(g) = normalize_id(ProviderCall.id)
          /\ GameIdOf(g)[2] \notin DOMAIN builder[1].games

-----------------------------------------------------------------------------
(* C6: an activate_game call whose id does not normalise to a key of the   *)
(* game map fails, with InvalidId when the id is malformed and with        *)
(* NotFound(normalised id) when it is well formed, and the active-game     *)
(* slot after the call is the slot before it.                              *)
C6_ActivateUnknown ==
    [][(/\ ctx # None
        /\ Returned("activate_game")'
        /\ \/ IsErr(normalize_id(last'.arg[1]))
           \/ normalize_id(last'.arg[1])[2] \notin DOMAIN ctx[1].game_providers)
       => LET n == normalize_id(last'.arg[1]) IN
          /\ last'.res = IF IsErr(n) THEN n ELSE Err("NotFound", <<n[2]>>)
          /\ IsErr(n) => ErrKind(n) = "InvalidId"
          /\ active_game' = active_game]_vars

\* activate_game("unknown") has just failed with NotFound while the slot holds
\* the id of an earlier activation
C6_Witness ==
    /\ Returned("activate_game")
    /\ last.arg = <<S_Unknown>>
    /\ last.res = Err("NotFound", <<S_Unknown>>)
    /\ active_game \in {Some(S_game_x), Some(S_CoreG)}

-----------------------------------------------------------------------------
-----------------------------------------------------------------------------
(* C8, as claimed: while no activate_game call has returned Ok, every      *)
(* get_extended_info call fails with NotFound and no provider is called.   *)
C8_Original ==
    (ctx # None /\ ~activated) =>
       /\ \A t \in Threads : pc[t] # "get_extended_mod"
       /\ Returned("get_extended_info") => IsNotFound(last.res)

(* C8, amended: while no activate_game call has returned Ok, no provider   *)
(* is called and every get_extended_info call fails: with                  *)
(* NotFound("No active game") when the mod id is well formed, and with     *)
(* InvalidId when it is malformed, whatever is registered.                 *)
C8_NoActiveGame ==
    (ctx # None /\ ~activated) =>
       /\ \A t \in Threads : pc[t] # "get_extended_mod"
       /\ Returned("get_extended_info") =>
             last.res = IF IsErr(normalize_id(last.arg[1]))
                        THEN normalize_id(last.arg[1])
                        ELSE Err("NotFound", <<S_NoActiveGame>>)

\* providers and games are registered, nothing was activated, and
\* get_extended_info("Installed-mod") has just failed with NotFound
C8_Witness ==
    /\ ctx # None
    /\ ~activated
    /\ DOMAIN ctx[1].mod_providers # {}
    /\ DOMAIN ctx[1].game_providers # {}
    /\ Returned("get_extended_info")
    /\ last.arg = <<S_InstalledMod>>
    /\ last.res = Err("NotFound", <<S_NoActiveGame>>)

-----------------------------------------------------------------------------
(* C9: freeze is one-way and the snapshot is immutable.  Once the Context  *)
(* exists, no step of any thread, in any interleaving of the Context's     *)
(* methods, changes its provider map or its game map, none brings the      *)
(* builder back, and the active-game slot changes only in the step in      *)
(* which an activate_game call returns Ok, to the id that call normalised. *)
C9_FrozenSnapshot ==
    [][ctx # None =>
          /\ ctx' = ctx
          /\ builder = None
          /\ builder' = None
          /\ active_game' # active_game =>
                /\ Returned("activate_game")'
                /\ last'.res = Ok(Unit)
                /\ active_game' = Some(normalize_id(last'.arg[1])[2])]_vars

\* a Context with two games: one thread waits on the provider it called from
\* get_extended_info while the other, inside activate_game, holds the lock
\* and is about to replace the active game
C9_Witness ==
    /\ ctx # None
    /\ Cardinality(DOMAIN ctx[1].game_providers) = 2
    /\ pc["t1"] = "get_extended_mod"
    /\ pc["t2"] = "activate_write"
    /\ active_game # None
    /\ active_game # Some(loc["t2"].id)

-----------------------------------------------------------------------------
(* C10: freeze produces a Context whose provider map and game map are the  *)
(* builder's maps at the call, entry for entry, with an empty active-game  *)
(* slot; until an activate_game call returns Ok the slot stays empty and   *)
(* active_game and active_game_required_provider return None.              *)
C10_Freeze ==
    /\ [][(builder # None /\ builder' = None) =>
             /\ ctx = None
             /\ ctx' = Some([mod_providers |-> builder[1].mod_providers,
                             game_providers |-> builder[1].games])
             /\ active_game' = None
             /\ lock' = Free]_vars
    /\ []((ctx # None /\ ~activated) =>
             /\ active_game = None
             /\ Returned("active_game") => last.res = None
             /\ Returned("active_game_required_provider") => last.res = None)

\* a Context frozen from a builder holding providers and a game; nothing was
\* activated and active_game_required_provider has just returned None
C10_Witness ==
    /\ ctx # None
    /\ ~activated
    /\ DOMAIN ctx[1].mod_providers = {S_ModA, S_core_base}
    /\ DOMAIN ctx[1].game_providers = {S_game_x}
    /\ ctx[1].game_providers[S_game_x].required_provider_id = S_core_base
    /\ Returned("active_game_required_provider")
    /\ last.res = None

-----------------------------------------------------------------------------
(* C11: no operation clears the active-game slot.  Once an activate_game   *)
(* call has returned Ok the slot is non-empty in every later state and     *)
(* active_game() returns Some; the step in which activate_game(id) returns *)
(* Ok leaves normalize_id(id) in the slot, every other step leaves the     *)
(* slot as it is, and activating the id the slot already holds leaves the  *)
(* slot's value the same.                                                  *)
C11_SlotNeverCleared ==
    [][/\ active_game # None => active_game' # None
       /\ activated' => active_game' # None
       /\ (Returned("active_game")' /\ activated) => last'.res # None
       /\ IF Returned("activate_game")' /\ IsOk(last'.res)
          THEN /\ activated'
               /\ active_game' = Some(normalize_id(last'.arg[1])[2])
               /\ active_game = Some(normalize_id(last'.arg[1])[2])
                     => active_game' = active_game
          ELSE active_game' = active_game]_vars

\* with two games registered and one of them active, a thread inside
\* activate_game holds the lock and is about to store the id that is
\* already active, while the other thread is inside active_game's caller
C11_Witness ==
    /\ ctx # None
    /\ Cardinality(DOMAIN ctx[1].game_providers) = 2
    /\ activated
    /\ pc["t1"] = "activate_write"
    /\ active_game = Some(loc["t1"].id)
    /\ loc["t1"].arg = <<S_GameX>>
    /\ pc["t2"] = "get_extended_mod"

-----------------------------------------------------------------------------
(* C12: the active-game lock is never held across a provider call.  A      *)
(* thread suspended in the provider's get_extended_mod does not hold the   *)
(* lock, the lock is held only inside activate_game, active_game and the   *)
(* callers of active_game up to the drop of the guard, and whenever a      *)
(* thread holds the lock it is released again even if no pending provider  *)
(* call ever completes, so no caller waits on the lock for a provider.     *)
C12_LockNotHeldAcrossProviderCall ==
    /\ [](\A t \in Threads :
            /\ pc[t] = "get_extended_mod" => lock # t
            /\ lock = t => pc[t] \in {"activate_write", "active_game",
                                      "active_game_required_provider",
                                      "get_extended_info"})
    /\ \A t \in Threads : (lock = t) ~> (lock = Free)

\* one thread is suspended in the provider call it made from
\* get_extended_info while the other has taken the lock in active_game
C12_Witness ==
    /\ pc["t1"] = "get_extended_mod"
    /\ loc["t1"].provider # None
    /\ pc["t2"] = "active_game"
    /\ lock = "t2"

-----------------------------------------------------------------------------
(* C17: the lists of a frozen Context hold exactly the successful          *)
(* registrations.  On the builder a registration that returns Ok adds one  *)
(* entry, under the normalised id and with the origin of the call, and one *)
(* that fails leaves both maps as they were; after freeze                  *)
(* list_mod_providers returns one (id, origin) tuple per key of the        *)
(* provider map and list_games one (id, origin, dependency id) tuple per   *)
(* key of the game map, each id once.                                      *)
C17_Lists ==
    /\ [][(InBuilderStep /\ Returned("register_mod_provider")') =>
             /\ GameMap' = GameMap
             /\ IF IsOk(last'.res)
                THEN LET n == normalize_id(ProviderCall'.id)[2] IN
                     /\ n \notin DOMAIN ProviderMap
                     /\ DOMAIN ProviderMap' = DOMAIN ProviderMap \cup {n}
                     /\ ProviderMap'[n].id = n
                     /\ ProviderMap'[n].source = ProviderCall'.source
                     /\ \A k \in DOMAIN ProviderMap : ProviderMap'[k] = ProviderMap[k]
                ELSE ProviderMap' = ProviderMap]_vars
    /\ [][(InBuilderStep /\ Returned("register_game_provider")') =>
             /\ ProviderMap' = ProviderMap
             /\ IF IsOk(last'.res)
                THEN LET n == GameIdOf(GameCall'.provider)[2] IN
                     /\ n \notin DOMAIN GameMap
                     /\ DOMAIN GameMap' = DOMAIN GameMap \cup {n}
                     /\ GameMap'[n].id = n
                     /\ GameMap'[n].source = GameCall'.source
                     /\ GameMap'[n].required_provider_id
                           = DependencyOf(GameCall'.provider)[2]
                     /\ \A k \in DOMAIN GameMap : GameMap'[k] = GameMap[k]
                ELSE GameMap' = GameMap]_vars
    /\ [][Returned("freeze")' => (ProviderMap' = ProviderMap /\ GameMap' = GameMap)]_vars
    /\ [](Returned("list_mod_providers") =>
             /\ Len(last.res) = Cardinality(DOMAIN ProviderMap)
             /\ {last.res[i] : i \in 1..Len(last.res)}
                   = {<<k, ProviderMap[k].source>> : k \in DOMAIN ProviderMap})
    /\ [](Returned("list_games") =>
             /\ Len(last.res) = Cardinality(DOMAIN GameMap)
             /\ {last.res[i] : i \in 1..Len(last.res)}
                   = {<<k, GameMap[k].source, GameMap[k].required_provider_id>> :
                         k \in DOMAIN GameMap})

\* a Context with a Core and a Plugin provider and two games of different
\* origins: list_games returned the two tuples
C17_Witness ==
    /\ ctx # None
    /\ DOMAIN ctx[1].mod_providers = {S_ModA, S_core_base}
    /\ ctx[1].mod_providers[S_ModA].source = Plugin("plug-a")
    /\ Returned("list_games")
    /\ Len(last.res) = 2
    /\ \E i \in 1..2 : last.res[i] = <<S_game_x, Plugin("plug-a"), S_ModA>>
    /\ \E i \in 1..2 : last.res[i] = <<S_CoreG, Core, S_core_base>>

-----------------------------------------------------------------------------
(* C18: lookups normalise before they search.  For a raw id that           *)
(* normalises to n, get_mod_provider, get_game_provider and get_metadata   *)
(* return Ok exactly when n is a key of their map, with the provider, the  *)
(* game or the game's metadata stored under n, and Err(NotFound(n))        *)
(* otherwise; every lookup returns a value.                                *)
C18_Lookups ==
    /\ Returned("get_mod_provider") =>
          LET n == normalize_id(last.arg[1]) IN
          IsOk(n) =>
             IF n[2] \in DOMAIN ProviderMap
             THEN last.res = Ok(ProviderMap[n[2]].provider)
             ELSE last.res = Err("NotFound", <<n[2]>>)
    /\ Returned("get_game_provider") =>
          LET n == normalize_id(last.arg[1]) IN
          IsOk(n) =>
             IF n[2] \in DOMAIN GameMap
             THEN last.res = Ok(GameMap[n[2]].game)
             ELSE last.res = Err("NotFound", <<n[2]>>)
    /\ Returned("get_metadata") =>
          LET n == normalize_id(last.arg[1]) IN
          IsOk(n) =>
             IF n[2] \in DOMAIN GameMap
             THEN last.res = Ok(Metadata(GameMap[n[2]].game))
             ELSE last.res = Err("NotFound", <<n[2]>>)

\* get_mod_provider(" Mod:A") returned the provider stored under "mod:a"
\* in a Context that also holds a game
C18_Witness ==
    /\ ctx # None
    /\ Returned("get_mod_provider")
    /\ last.arg = <<S_ModA_Upper>>
    /\ S_ModA \in DOMAIN ctx[1].mod_providers
    /\ last.res = Ok(ctx[1].mod_providers[S_ModA].provider)
    /\ S_game_x \in DOMAIN ctx[1].game_providers

-----------------------------------------------------------------------------
(* What the properties of the capability delegates read *)

\* the delegate calls that hold an upgraded Arc to the provider
InProgress == Cardinality({c \in Callers : dpc[c] = "owner_call"})

\* the step just taken returned from a delegate method
DelegateReturned == dlast.op # "none"

\* what each delegate method returns when its provider is gone
Unavailable(op) ==
    CASE op = "on_provided" -> Err("ProviderError", <<>>)
      [] op = "on_rejected" -> Unit
      [] op = "needs_prompt" -> Bool(FALSE)
      [] op = "render" -> Err("ProviderDropped", <<>>)
      [] op = "get_configurable" -> None
      [] op = "apply_configuration" -> Unit

-----------------------------------------------------------------------------
-----------------------------------------------------------------------------
(* C14: while the provider is alive, a call on a delegate (on_provided,    *)
(* needs_prompt, render, on_rejected, get_configurable,                    *)
(* apply_configuration) runs the provider's own method with the arguments  *)
(* of the call and returns what that method returned, the provider's own   *)
(* validation errors included.                                             *)
C14_Forwarding ==
    [][(owner = "alive" /\ DelegateReturned') =>
          /\ invoked' = Some([op |-> dlast'.op, args |-> dlast'.args, res |-> dlast'.res])
          /\ dlast'.res \in OwnerResults(dlast'.op, dlast'.args)]_vars

\* on_provided with the key "SHORT" returned the provider's TooShort { min_len: 16 }
C14_Witness ==
    /\ owner = "alive"
    /\ dlast.op = "on_provided"
    /\ dlast.args = <<(<<ApiSubmitResponse(S_KeyShort)>>)>>
    /\ dlast.res = Err("TooShort", <<16>>)
    /\ invoked # None
    /\ invoked[1].args = dlast.args

-----------------------------------------------------------------------------
(* C15: a delegate never keeps its provider alive.  Whatever the number of *)
(* delegates in the provider's list and of clones of capability references *)
(* held outside, the provider's strong count is the number of handles held *)
(* outside plus the delegate calls in progress, so with no call in         *)
(* progress the drop of the last outside handle destroys the provider.     *)
C15_NoRetainCycle ==
    owner # "building" =>
        /\ strong = handles + InProgress
        /\ owner = "alive" <=> strong > 0
        /\ (handles = 0 /\ InProgress = 0) => owner = "dropped"
        /\ StrongRefs(caps) = 0

\* the provider had two delegates, clones of both capability references are
\* still held, delegate calls had been made, and the provider is destroyed
C15_Witness ==
    /\ owner = "dropped"
    /\ Len(caps) = 2
    /\ cap_refs[1] > 0
    /\ cap_refs[2] > 0
    /\ resolved # {}
    /\ handles = 0

-----------------------------------------------------------------------------
(* C16: the delegate checks that its provider is alive on every call and   *)
(* keeps nothing from earlier calls.  A call resolves the provider only    *)
(* while it is alive; a call returning while the provider is alive has run *)
(* the provider's method, and a call made after the provider's destruction *)
(* returns the method's unavailable outcome without running anything, also *)
(* on a delegate whose earlier calls were forwarded.                       *)
C16_LivenessNeverCached ==
    [][/\ \A c \in Callers :
             (dpc[c] = "idle" /\ dpc'[c] = "owner_call") => (owner = "alive" /\ strong > 0)
       /\ DelegateReturned' =>
             IF owner = "alive"
             THEN invoked' # None /\ invoked'[1].op = dlast'.op
             ELSE /\ invoked' = None
                  /\ dlast'.res = Unavailable(dlast'.op)
                  /\ strong' = 0]_vars

\* render on a delegate that had resolved its provider in an earlier call,
\* made after the provider's destruction, returned ProviderDropped
C16_Witness ==
    /\ owner = "dropped"
    /\ dlast.op = "render"
    /\ dlast.cap \in resolved
    /\ dlast.res = Err("ProviderDropped", <<>>)
    /\ invoked = None

-----------------------------------------------------------------------------
(* C19: normalize_id is a function of its argument and idempotent: when it *)
(* returns Ok(s) for a raw id, it returns Ok(s) for s as well, and s has   *)
(* no upper-case letter and no leading or trailing whitespace.             *)
C19_Idempotent ==
    /\ n_res # NotCalled => n_res = normalize_id(n_raw)
    /\ IsOk(n_res) =>
          LET s == n_res[2] IN
          /\ normalize_id(s) = Ok(s)
          /\ \A i \in 1..Len(s) : s[i] \notin UpperSet
          /\ ~IsWhitespace(s[1])
          /\ ~IsWhitespace(s[Len(s)])
          /\ ToLowercase(Trim(s)) = s

\* " B0" was normalised to "b0", which differs from it in case and whitespace
C19_Witness ==
    /\ n_raw = <<" ", "B", "0">>
    /\ n_res = Ok(<<"b", "0">>)

-----------------------------------------------------------------------------
-----------------------------------------------------------------------------
(* C21, as claimed: for an id that normalize_id accepts, is_core_id(id)      *)
(* returns true exactly when the normalised id begins with `core:`; it      *)
(* returns true for "core:x" and false for "corex:y".                       *)
C21_IsCore ==
    (n_core # NotCalled /\ IsOk(normalize_id(n_raw))) =>
        /\ n_core = Bool(StartsWith(normalize_id(n_raw)[2], CorePrefix))
        /\ n_raw = S_core_x => n_core = Bool(TRUE)
        /\ n_raw = S_corex_y => n_core = Bool(FALSE)

-----------------------------------------------------------------------------
(* C22, as claimed: in every state of the builder and of the frozen         *)
(* Context, every entry of the provider map and every entry of the game map *)
(* whose id is under `core:` has origin Core.                               *)
C22_ReservedNamespace ==
    /\ \A k \in DOMAIN ProviderMap :
          is_core_id(k) => ProviderMap[k].source = Core
    /\ \A k \in DOMAIN GameMap :
          is_core_id(k) => GameMap[k].source = Core

-----------------------------------------------------------------------------
(* C23: stored ids are normalised and unique.  In every state of the        *)
(* builder and of the frozen Context each key of the provider map and of    *)
(* the game map is returned unchanged by normalize_id and is the id field   *)
(* of the entry stored under it, no two entries of a map have the same id,  *)
(* and each stored required_provider_id is returned unchanged by            *)
(* normalize_id.                                                            *)
C23_StoredIdsNormalized ==
    /\ \A k \in DOMAIN ProviderMap :
          /\ normalize_id(k) = Ok(k)
          /\ ProviderMap[k].id = k
    /\ \A k \in DOMAIN GameMap :
          /\ normalize_id(k) = Ok(k)
          /\ GameMap[k].id = k
          /\ normalize_id(GameMap[k].required_provider_id) =
                Ok(GameMap[k].required_provider_id)
    /\ \A j, k \in DOMAIN ProviderMap : ProviderMap[j].id = ProviderMap[k].id => j = k
    /\ \A j, k \in DOMAIN GameMap : GameMap[j].id = GameMap[k].id => j = k

\* the frozen Context holds the game that reports itself as "Game-X" and its
\* dependency as " Mod:A", and the provider registered as "Core:Base "
C23_Witness ==
    /\ ctx # None
    /\ S_game_x \in DOMAIN GameMap
    /\ GameMap[S_game_x].game = "GX"
    /\ GameMap[S_game_x].required_provider_id = S_ModA
    /\ S_core_base \in DOMAIN ProviderMap

-----------------------------------------------------------------------------
(* C24: a register_game_provider call for a game whose normalised id is a   *)
(* key of the game map fails with GameAlreadyExists(id) and leaves the      *)
(* builder, and so the stored GameEntry with its dependency id and origin,  *)
(* as it was, whatever dependency and origin the call declares.             *)
C24_DuplicateGame ==
    [][(/\ InBuilderStep
        /\ Returned("register_game_provider")'
        /\ IsOk(GameIdOf(GameCall.provider'))
        /\ GameIdOf(GameCall.provider')[2] \in DOMAIN builder[1].games)
       => LET id == GameIdOf(GameCall.provider')[2] IN
          /\ last'.res = Err("GameAlreadyExists", <<id>>)
          /\ builder'[1].games[id] = builder[1].games[id]
          /\ builder' = builder]_vars

\* game-x was registered by the provider object depending on " Mod:A", with a
\* Plugin origin; the registration of another object reporting the same id, a
\* dependency on "Core:Base " and origin Core has just been refused
C24_Witness ==
    /\ builder # None
    /\ Returned("register_game_provider")
    /\ GameCall.provider = "GX2"
    /\ GameCall.source = Core
    /\ last.res = Err("GameAlreadyExists", <<S_game_x>>)
    /\ S_core_base \in DOMAIN builder[1].mod_providers
    /\ builder[1].games[S_game_x] = GameEntry(S_game_x, Plugin("plug-a"), "GX", S_ModA)

-----------------------------------------------------------------------------
(* C25: active_game_required_provider returns None exactly when the         *)
(* active-game slot is empty; with a game in the slot it returns the        *)
(* required_provider_id stored for that game, which is the normalised       *)
(* mod_provider_id() of the game provider registered under it and a key of  *)
(* the provider map.                                                        *)
C25_RequiredProvider ==
    (ctx # None /\ Returned("active_game_required_provider")) =>
        /\ last.res = None <=> active_game = None
        /\ active_game # None =>
              LET entry == ctx[1].game_providers[active_game[1]] IN
              /\ last.res = Some(entry.required_provider_id)
              /\ DependencyOf(entry.game) = Ok(entry.required_provider_id)
              /\ entry.required_provider_id \in DOMAIN ctx[1].mod_providers

\* with two games registered and game-x active, the second thread has just
\* been told mod:a
C25_Witness ==
    /\ ctx # None
    /\ DOMAIN ctx[1].game_providers = {S_game_x, S_CoreG}
    /\ active_game = Some(S_game_x)
    /\ Returned("active_game_required_provider")
    /\ last.thread = "t2"
    /\ last.res = Some(S_ModA)

-----------------------------------------------------------------------------
(* C29, as claimed: a register_game_provider call for a game whose id or    *)
(* whose dependency id is malformed fails with InvalidId, also when the     *)
(* game's id is already a key of the game map.                              *)
C29_NormalizesBoth ==
    [][(/\ InBuilderStep
        /\ Returned("register_game_provider")'
        /\ \/ IsErr(GameIdOf(GameCall.provider'))
           \/ IsErr(DependencyOf(GameCall.provider')))
       => /\ IsErr(last'.res)
          /\ ErrKind(last'.res) = "InvalidId"]_vars

-----------------------------------------------------------------------------
(* C30: a registration that fails, with InvalidId, ReservedCoreId,          *)
(* ProviderAlreadyExists, GameAlreadyExists or NotFound, leaves both maps   *)
(* of the builder as they were; a register_mod_provider call that returns   *)
(* Ok adds one entry to the provider map and leaves the game map as it was, *)
(* and a register_game_provider call that returns Ok adds one entry to the  *)
(* game map and leaves the provider map as it was.                          *)
C30_Frame ==
    [][(/\ InBuilderStep
        /\ Returned("register_mod_provider")' \/ Returned("register_game_provider")')
       => LET old == builder[1]
              new == builder'[1]
              AddsOne(m, n) ==
                  /\ Cardinality(DOMAIN n) = Cardinality(DOMAIN m) + 1
                  /\ \A k \in DOMAIN m : k \in DOMAIN n /\ n[k] = m[k]
          IN  IF IsErr(last'.res)
              THEN /\ ErrKind(last'.res) \in
                         {"InvalidId", "ReservedCoreId", "ProviderAlreadyExists",
                          "GameAlreadyExists", "NotFound"}
                   /\ new.mod_providers = old.mod_providers
                   /\ new.games = old.games
              ELSE IF Returned("register_mod_provider")'
                   THEN /\ AddsOne(old.mod_providers, new.mod_providers)
                        /\ new.games = old.games
                   ELSE /\ AddsOne(old.games, new.games)
                        /\ new.mod_providers = old.mod_providers]_vars

\* on a builder holding a provider and a game, the registration of a game
\* whose dependency is missing has just failed and both maps are as they were
C30_Witness ==
    /\ builder # None
    /\ Returned("register_game_provider")
    /\ last.res = Err("NotFound", <<S_ModA>>)
    /\ DOMAIN builder[1].mod_providers = {S_core_base}
    /\ DOMAIN builder[1].games = {S_CoreG}

-----------------------------------------------------------------------------
(* C28: on a delegate whose provider has been destroyed, on_rejected and    *)
(* apply_configuration return their unit value and get_configurable returns *)
(* None, for every mod id; the call upgrades nothing, runs no method of the *)
(* provider and leaves the provider destroyed.                              *)
C28_SkippedSilently ==
    [][(/\ owner = "dropped"
        /\ DelegateReturned'
        /\ dlast'.op \in {"on_rejected", "apply_configuration", "get_configurable"})
       => /\ dlast'.op = "on_rejected" => dlast'.res = Unit
          /\ dlast'.op = "apply_configuration" => dlast'.res = Unit
          /\ dlast'.op = "get_configurable" => dlast'.res = None
          /\ invoked' = None
          /\ strong' = 0
          /\ owner' = "dropped"]_vars

\* the provider is gone and a clone of its configurable-mods capability is
\* still held: apply_configuration for a mod has just returned
C28_Witness ==
    /\ owner = "dropped"
    /\ dlast.op = "apply_configuration"
    /\ dlast.args = <<S_InstalledMod, <<>>>>
    /\ dlast.res = Unit
    /\ invoked = None
    /\ caps[dlast.cap].id = CONFIGURABLE_MODS
    /\ cap_refs[dlast.cap] > 0

-----------------------------------------------------------------------------
(* C26: the CapabilityBuilder accumulates.  It keeps the one Weak reference *)
(* it was made with; each api_key call leaves the delegates already in its  *)
(* list in place and adds one behind them, of id REQUIRES_API_KEY and       *)
(* holding that reference, so that after n calls the list has n delegates,  *)
(* all naming the same provider; finish returns that list, the empty list   *)
(* when api_key was never called.                                           *)
C26_BuilderAccumulates ==
    /\ [](cap_builder # None =>
             LET b == cap_builder[1] IN
             /\ b.weak = Weak(OwnerAlloc)
             /\ Len(b.caps) = attached
             /\ \A i \in DOMAIN b.caps :
                   /\ b.caps[i].id = REQUIRES_API_KEY
                   /\ b.caps[i].inner = b.weak)
    /\ [][(cap_builder # None /\ cap_builder' # None /\ cap_builder' # cap_builder)
          => LET old == cap_builder[1]
                 new == cap_builder'[1]
             IN  /\ attached' = attached + 1
                 /\ new.weak = old.weak
                 /\ Len(new.caps) = Len(old.caps) + 1
                 /\ SubSeq(new.caps, 1, Len(old.caps)) = old.caps
                 /\ new.caps[Len(new.caps)] = ApiKeyCapability(old.weak)]_vars
    /\ [][(cap_builder # None /\ cap_builder' = None)
          => /\ caps' = cap_builder[1].caps
             /\ Len(caps') = attached
             /\ attached = 0 => caps' = <<>>]_vars

\* finish has returned the two delegates of two api_key calls
C26_Witness ==
    /\ cap_builder = None
    /\ owner = "building"
    /\ attached = 2
    /\ Len(caps) = 2
    /\ \A i \in 1..2 : caps[i].id = REQUIRES_API_KEY /\ caps[i].inner = Weak(OwnerAlloc)

-----------------------------------------------------------------------------
(* C27: probing a capability is safe.  On every capability, whether its     *)
(* provider is alive or destroyed, id() returns the fixed id of its type,   *)
(* as_requires_api_key() returns Some(the capability) on an                 *)
(* ApiKeyCapability and None on every type that keeps the default, and      *)
(* get::<T>() returns Some(the capability) when its concrete type is T and  *)
(* None for every other T; each probe returns a value.                      *)
C27_Probing ==
    probed.op # "none" =>
        LET cap == CapabilityAt(probed.cap) IN
        /\ probed.op = "id" =>
              probed.res = CASE cap.type = ApiKeyCapabilityType -> REQUIRES_API_KEY
                             [] cap.type = ConfigurableModsCapabilityType -> CONFIGURABLE_MODS
                             [] cap.type = SimpleCapType -> "test.simple"
        /\ probed.op = "as_requires_api_key" =>
              /\ cap.type = ApiKeyCapabilityType => probed.res = Some(cap)
              /\ cap.type # ApiKeyCapabilityType => probed.res = None
        /\ probed.op = "get" =>
              /\ cap.type = probed.type => probed.res = Some(cap)
              /\ cap.type # probed.type => probed.res = None

\* the provider is gone; the holder of a clone of its api-key capability has
\* just downcast it to ApiKeyCapability<DummyModProvider>
C27_Witness ==
    /\ owner = "dropped"
    /\ probed.op = "get"
    /\ probed.cap > 0
    /\ probed.type = ApiKeyCapabilityType
    /\ probed.res = Some(ApiKeyCapability(Weak(OwnerAlloc)))

\* ---------------------------------------------------------------------
\* C31: under any interleaving of activate_game and active_game calls of
\* two threads on one Context, the active-game slot is at every instant
\* empty or a key of the game map in normalised form; it changes only in
\* the step of the activation that holds the lock, to the normalised id
\* of that call, which returns Ok; and whenever no activation is between
\* taking the lock and returning, the slot holds the id of the activation
\* that took the lock last.
Activating(t) == pc[t] = "activate_write"

C31_SlotState ==
    /\ ctx # None =>
          \/ active_game = None
          \/ /\ active_game[1] \in DOMAIN ctx[1].game_providers
             /\ normalize_id(active_game[1]) = Ok(active_game[1])
    /\ \A t \in Threads : Activating(t) => lock = t
    /\ (\A t \in Threads : ~Activating(t)) => active_game = last_locked

C31_SlotWrite ==
    active_game' # active_game =>
        \E t \in Threads :
            /\ Activating(t)
            /\ lock = t
            /\ normalize_id(loc[t].arg[1]) = Ok(loc[t].id)
            /\ active_game' = Some(loc[t].id)
            /\ last' = Call("activate_game", t, loc[t].arg, Ok(Unit))

C31_ActiveSlot == [](C31_SlotState) /\ [][C31_SlotWrite]_vars

\* one activation has returned and its id is in the slot while the other
\* thread holds the lock to write the id of a different game
C31_Witness ==
    /\ active_game = Some(S_game_x)
    /\ Activating("t2")
    /\ loc["t2"].arg = <<S_CoreG>>
    /\ last_locked = Some(S_CoreG)
    /\ activated

\* ---------------------------------------------------------------------
\* C32: get_extended_info and active_game_required_provider read the
\* active-game slot once per call, under the lock.  The provider that
\* get_extended_info calls is the one registered under the dependency id
\* of the game that is in the slot in that one step; the call keeps that
\* provider whatever activate_game calls of the other thread do to the
\* slot before it returns, and its result is that provider's answer.
\* active_game_required_provider returns the dependency id of the game in
\* the slot in its one reading step.
ProviderOfGame(g) ==
    ctx[1].mod_providers[ctx[1].game_providers[g].required_provider_id].provider

C32_ReadOnce ==
    \A t \in Threads :
        /\ (pc[t] = "get_extended_info" /\ pc'[t] = "get_extended_mod") =>
              /\ lock = t
              /\ active_game # None
              /\ active_game' = active_game
              /\ loc'[t].provider = Some(ProviderOfGame(active_game[1]))
        /\ (pc[t] = "get_extended_mod" /\ pc'[t] = "get_extended_mod") =>
              loc'[t] = loc[t]
        /\ (pc[t] = "get_extended_mod" /\ pc'[t] # "get_extended_mod") =>
              /\ active_game' = active_game
              /\ last' = Call("get_extended_info", t, loc[t].arg,
                              Ok(ExtendedMod(loc[t].provider[1], loc[t].id)))
        /\ (pc[t] = "active_game_required_provider" /\ pc'[t] = "idle") =>
              /\ lock = t
              /\ active_game' = active_game
              /\ last'.res = IF active_game = None THEN None
                             ELSE Some(ctx[1].game_providers[active_game[1]]
                                          .required_provider_id)

C32_SingleRead == [][C32_ReadOnce]_vars

\* two games depend on providers that are different objects; t1 read the
\* slot while game-x was active and is suspended in that game's provider,
\* and t2 has since activated core:g
C32_Witness ==
    /\ ctx # None
    /\ DOMAIN ctx[1].game_providers = {S_game_x, S_CoreG}
    /\ pc["t1"] = "get_extended_mod"
    /\ active_game = Some(S_CoreG)
    /\ loc["t1"].provider = Some(ProviderOfGame(S_game_x))
    /\ ProviderOfGame(S_game_x) # ProviderOfGame(S_CoreG)
    /\ last = Call("activate_game", "t2", <<S_CoreG>>, Ok(Unit))

\* ---------------------------------------------------------------------
\* C33, as claimed: with an active game set, every get_extended_info call
\* returns the answer of the provider registered under the active game's
\* dependency id and leaves the slot as it is.
C33_Original ==
    [][(ctx # None /\ active_game # None /\ Returned("get_extended_info")') =>
          /\ IsOk(last'.res)
          /\ last'.res[2][2] = ProviderOfGame(active_game[1])
          /\ active_game' = active_game]_vars

\* C33, amended: with an active game set, a get_extended_info call whose
\* mod id is well formed calls get_extended_mod once, on the provider
\* registered under the active game's dependency id and with the
\* normalised mod id, and returns that provider's answer as it is; the
\* only way out of the provider call is its answer (no timeout); a call
\* whose mod id is malformed fails with InvalidId and calls no provider;
\* neither changes the active-game slot.
C33_ExtendedInfo ==
    [][/\ (ctx # None /\ active_game # None /\ Returned("get_extended_info")') =>
             LET n == normalize_id(last'.arg[1])
                 t == last'.thread IN
             /\ active_game' = active_game
             /\ IF IsErr(n)
                THEN /\ last'.res = n
                     /\ ErrKind(n) = "InvalidId"
                     /\ pc[t] = "idle"
                ELSE /\ pc[t] = "get_extended_mod"
                     /\ loc[t].provider = Some(ProviderOfGame(active_game[1]))
                     /\ last'.res = Ok(ExtendedMod(ProviderOfGame(active_game[1]), n[2]))
       /\ \A t \in Threads :
             /\ (pc'[t] = "get_extended_mod" /\ pc[t] # "get_extended_mod") =>
                   (pc[t] = "get_extended_info" /\ active_game # None)
             /\ (pc[t] = "get_extended_mod" /\ pc'[t] # "get_extended_mod") =>
                   (Returned("get_extended_info")' /\ IsOk(last'.res))]_vars

\* game-x, which depends on mod:a, is active in a Context with two
\* providers that are different objects; get_extended_info("Installed-mod")
\* has just returned the answer of the provider under mod:a for
\* "installed-mod"
C33_Witness ==
    /\ ctx # None
    /\ DOMAIN ctx[1].mod_providers = {S_ModA, S_core_base}
    /\ ctx[1].mod_providers[S_ModA].provider # ctx[1].mod_providers[S_core_base].provider
    /\ active_game = Some(S_game_x)
    /\ Returned("get_extended_info")
    /\ last.arg = <<S_InstalledMod>>
    /\ last.res = Ok(ExtendedMod(ctx[1].mod_providers[S_ModA].provider,
                                 ToLowercase(S_InstalledMod)))

\* ---------------------------------------------------------------------
\* C34: register_provider checks in this order: the identifier, the
\* reserved namespace, uniqueness.  A malformed id fails with InvalidId
\* whatever the origin; a well-formed id under `core:` with an origin
\* other than Core fails with ReservedCoreId whether or not the id is
\* registered, never with ProviderAlreadyExists; any other id fails with
\* ProviderAlreadyExists when it is registered and is stored otherwise.
C34_CheckOrder ==
    [][(InBuilderStep /\ Returned("register_mod_provider")') =>
          LET n == normalize_id(ProviderCall.id') IN
          last'.res =
             IF IsErr(n) THEN n
             ELSE IF is_core_id(n[2]) /\ ProviderCall.source' # Core
                  THEN Err("ReservedCoreId", <<n[2]>>)
                  ELSE IF n[2] \in DOMAIN builder[1].mod_providers
                       THEN Err("ProviderAlreadyExists", <<n[2]>>)
                       ELSE Ok(Unit)]_vars

\* core:base is registered by Core with some provider object; a Plugin
\* registration of "Core:Base " with that same object has just failed
\* with ReservedCoreId
C34_Witness ==
    /\ builder # None
    /\ Returned("register_mod_provider")
    /\ ProviderCall.id = S_CoreBase
    /\ ProviderCall.source = Plugin("plug-a")
    /\ S_core_base \in DOMAIN builder[1].mod_providers
    /\ builder[1].mod_providers[S_core_base] =
          ProviderEntry(S_core_base, Core, ProviderCall.provider)
    /\ last.res = Err("ReservedCoreId", <<S_core_base>>)

\* ---------------------------------------------------------------------
\* C35: a delegate call that has resolved its provider keeps it alive for
\* that call only.  While a call is in progress the provider is alive,
\* also after the last handle held outside is dropped; the call then
\* returns what the provider's method returned, the provider is destroyed
\* in the step in which that call returns, and every call made later
\* returns the unavailable outcome.
C35_CallInProgress ==
    \A c \in Callers : dpc[c] = "owner_call" => (owner = "alive" /\ strong > 0)

C35_CallReturns ==
    /\ (InProgress > 0 /\ handles' < handles) => owner' = "alive"
    /\ \A c \in Callers :
          (dpc[c] = "owner_call" /\ dpc'[c] = "idle") =>
             /\ invoked' # None
             /\ invoked'[1].res \in OwnerResults(dloc[c].op, dloc[c].args)
             /\ dlast'.res = invoked'[1].res
             /\ (handles = 0 /\ InProgress = 1) => owner' = "dropped"
    /\ (owner = "dropped" /\ DelegateReturned') =>
          /\ dlast'.res = Unavailable(dlast'.op)
          /\ owner' = "dropped"

C35_HeldForTheCall == [](C35_CallInProgress) /\ [][C35_CallReturns]_vars

\* the last outside handle was dropped during a delegate call; the call has
\* just returned the provider's own answer and the provider is destroyed
C35_Witness ==
    /\ handles = 0
    /\ owner = "dropped"
    /\ invoked # None
    /\ dlast.op = "needs_prompt"
    /\ dlast.res = invoked[1].res
    /\ dlast.res # Unavailable("needs_prompt")

\* ---------------------------------------------------------------------
\* C37: Provider::find_capability(id) returns the first capability of the
\* provider's list, in list order, whose id() is id, and None exactly when
\* no capability of the list has that id; Provider::get::<T>() returns
\* the first capability whose concrete type is T, and None exactly when
\* there is none; neither call changes the list.
FirstAt(r, matches) ==
    /\ r = None <=> matches = {}
    /\ r # None =>
          /\ r[1] \in matches
          /\ \A j \in matches : r[1] <= j

C37_First ==
    /\ probed.op = "find_capability" =>
          FirstAt(probed.res, {i \in DOMAIN caps : Capability_id(caps[i]) = probed.type})
    /\ probed.op = "Provider::get" =>
          FirstAt(probed.res, {i \in DOMAIN caps : caps[i].type = probed.type})

C37_ListKept ==
    probed'.op \in {"find_capability", "Provider::get"} => caps' = caps

C37_FindCapability == [](C37_First) /\ [][C37_ListKept]_vars

\* the provider's list holds two api-key delegates; find_capability with
\* the api-key id returned the one at the head of the list
C37_Witness ==
    /\ Len(caps) = 2
    /\ Capability_id(caps[1]) = REQUIRES_API_KEY
    /\ Capability_id(caps[2]) = REQUIRES_API_KEY
    /\ probed.op = "find_capability"
    /\ probed.type = REQUIRES_API_KEY
    /\ probed.res = Some(1)

\* ---------------------------------------------------------------------
\* C36: the context of a DefaultProviderApi is set once.  While no
\* set_context call has returned, context() panics; a set_context call
\* made while the cell is empty and no other set_context is in progress
\* succeeds and stores its context; every set_context call made after a
\* first one was started panics and leaves the cell as it is; once a
\* context is stored the cell never changes and context() returns that
\* context; of the set_context calls of racing threads at most one
\* returns, and one does.
C36_Cell ==
    /\ Cardinality(set_ok) <= 1
    /\ context_cell = None <=> set_ok = {}
    /\ \A p \in set_ok : context_cell = Some(p[2])
    /\ Cardinality({c \in ApiCallers : apc[c] = "set_value"}) <= 1
    /\ alast.op = "context" =>
          alast.res = IF set_ok = {} THEN Panic("Context not set!")
                      ELSE Ok(context_cell[1])

C36_Step ==
    /\ context_cell # None => context_cell' = context_cell
    /\ (alast'.op = "set_context" /\ alast' # alast) =>
          IF context_cell = None /\ apc[alast'.caller] = "set_value"
          THEN /\ alast'.res = Ok(Unit)
               /\ context_cell' = Some(alast'.arg)
          ELSE /\ alast'.res = Panic("Cannot set context twice!")
               /\ context_cell' = context_cell
               /\ context_cell # None \/ \E d \in ApiCallers : apc[d] = "set_value"
    /\ \A c \in ApiCallers :
          (apc[c] = "idle" /\ apc'[c] = "set_value") =>
             (context_cell = None /\ \A d \in ApiCallers : apc[d] = "idle")

C36_SetOnce ==
    /\ [](C36_Cell)
    /\ [][C36_Step]_vars
    /\ \A c \in ApiCallers : (apc[c] = "set_value") ~> (context_cell # None)

\* set_context(ctx1) by a1 succeeded; set_context(ctx3) by a2 has just
\* panicked and the cell still holds ctx1
C36_Witness ==
    /\ set_ok = {<<"a1", "ctx1">>}
    /\ context_cell = Some("ctx1")
    /\ alast = ApiCall("set_context", "a2", "ctx3", Panic("Cannot set context twice!"))
====
